---- MODULE Spec2Model ----
(***************************************************************************)
(* GutInvoice (src/main.py): the invoice ledger behind the WhatsApp bot.   *)
(* The state is the persistent store (the sellers and invoices tables),    *)
(* the clock, and a record of what the last handled request did.  A text   *)
(* is a sequence of one-character strings, so that number formatting and   *)
(* the regular expressions of the cancellation parser are computed, not    *)
(* assumed.                                                                *)
(***************************************************************************)
EXTENDS Integers, Sequences, FiniteSets, TLC

VARIABLES
    sellers,    \* the sellers table: a sequence of rows
    invoices,   \* the invoices table: a sequence of rows, in insertion order
    clock,      \* datetime.utcnow(): [day, month, year]
    faults,     \* history: the calls to the store and the services that have failed
    last,       \* what the last handled request did (messages, allocations, ...)
    fin,        \* input of the formatting specification: [name, seq, month, year]
    fout,       \* output of the formatting specification: [prefix, number]
    workers     \* the worker threads in flight, where their steps are interleaved

vars == <<sellers, invoices, clock, faults, last, fin, fout, workers>>

----------------------------------------------------------------------------
(* Bounds of the model *)

MaxInvoices == 3      \* non-credit-note rows in the invoices table
MaxCredits == 1       \* credit-note rows in the invoices table
MaxSellerRows == 2    \* rows in the sellers table
MaxTicks == 1         \* months the clock advances
OnbInvoices == 1      \* the same three bounds where sellers register and rename
OnbCredits == 1
OnbSellerRows == 1
FltInvoices == 1      \* the same two bounds where calls fail
FltCredits == 2
MaxFaults == 1        \* calls that fail in one run
CrdInvoices == 2      \* the same two bounds where one seller cancels repeatedly
CrdCredits == 2
StormInvoices == 3    \* invoices and failed calls where the counting lookup fails
StormFaults == 2
RaceInvoices == 2
RaceCredits == 2
MaxNameLen == 3       \* length of a business name in the formatting specification
MaxSeqDigits == 3     \* the formatting specification formats 1, 10, 100, ...
MaxReportRows == 2    \* rows of the period in the report specification

Phones == {"p1", "p2"}

----------------------------------------------------------------------------
(* Characters and texts *)

UpperSet == {"A","B","C","D","E","F","G","H","I","J","K","L","M",
             "N","O","P","Q","R","S","T","U","V","W","X","Y","Z"}
LowerSet == {"a","b","c","d","e","f","g","h","i","j","k","l","m",
             "n","o","p","q","r","s","t","u","v","w","x","y","z"}
DigitChars == <<"0","1","2","3","4","5","6","7","8","9">>
DigitSet == {DigitChars[i] : i \in DOMAIN DigitChars}

IsUpper(c) == c \in UpperSet
IsLower(c) == c \in LowerSet
IsDigit(c) == c \in DigitSet

\* str.upper() and str.lower(), character by character
UpperOf ==
    "a" :> "A" @@ "b" :> "B" @@ "c" :> "C" @@ "d" :> "D" @@ "e" :> "E" @@ "f" :> "F"
    @@ "g" :> "G" @@ "h" :> "H" @@ "i" :> "I" @@ "j" :> "J" @@ "k" :> "K" @@ "l" :> "L"
    @@ "m" :> "M" @@ "n" :> "N" @@ "o" :> "O" @@ "p" :> "P" @@ "q" :> "Q" @@ "r" :> "R"
    @@ "s" :> "S" @@ "t" :> "T" @@ "u" :> "U" @@ "v" :> "V" @@ "w" :> "W" @@ "x" :> "X"
    @@ "y" :> "Y" @@ "z" :> "Z"
LowerOf ==
    "A" :> "a" @@ "B" :> "b" @@ "C" :> "c" @@ "D" :> "d" @@ "E" :> "e" @@ "F" :> "f"
    @@ "G" :> "g" @@ "H" :> "h" @@ "I" :> "i" @@ "J" :> "j" @@ "K" :> "k" @@ "L" :> "l"
    @@ "M" :> "m" @@ "N" :> "n" @@ "O" :> "o" @@ "P" :> "p" @@ "Q" :> "q" @@ "R" :> "r"
    @@ "S" :> "s" @@ "T" :> "t" @@ "U" :> "u" @@ "V" :> "v" @@ "W" :> "w" @@ "X" :> "x"
    @@ "Y" :> "y" @@ "Z" :> "z"
DigitValueOf ==
    "0" :> 0 @@ "1" :> 1 @@ "2" :> 2 @@ "3" :> 3 @@ "4" :> 4
    @@ "5" :> 5 @@ "6" :> 6 @@ "7" :> 7 @@ "8" :> 8 @@ "9" :> 9

UpperChar(c) == IF IsLower(c) THEN UpperOf[c] ELSE c
LowerChar(c) == IF IsUpper(c) THEN LowerOf[c] ELSE c
upper(t) == LET u == [i \in 1..Len(t) |-> UpperChar(t[i])] IN SubSeq(u, 1, Len(t))
lower(t) == LET l == [i \in 1..Len(t) |-> LowerChar(t[i])] IN SubSeq(l, 1, Len(t))

\* str.strip(): leading and trailing blanks removed
RECURSIVE lstrip(_)
lstrip(t) == IF t # <<>> /\ Head(t) = " " THEN lstrip(Tail(t)) ELSE t
RECURSIVE rstrip(_)
rstrip(t) == IF t # <<>> /\ t[Len(t)] = " " THEN rstrip(SubSeq(t, 1, Len(t) - 1)) ELSE t
strip(t) == rstrip(lstrip(t))

\* sub in text
Contains(sub, t) ==
    \E i \in 1..(Len(t) - Len(sub) + 1) : SubSeq(t, i, i + Len(sub) - 1) = sub

EndsWith(t, suf) ==
    Len(suf) <= Len(t) /\ SubSeq(t, Len(t) - Len(suf) + 1, Len(t)) = suf

\* str(n) for n >= 0, and the format specs {n:03d}, {n:02d}
RECURSIVE DigitsOf(_)
DigitsOf(n) == IF n < 10 THEN <<DigitChars[n + 1]>>
               ELSE DigitsOf(n \div 10) \o <<DigitChars[(n % 10) + 1]>>
RECURSIVE ZeroPad(_, _)
ZeroPad(t, w) == IF Len(t) >= w THEN t ELSE ZeroPad(<<"0">> \o t, w)
Fmt03d(n) == ZeroPad(DigitsOf(n), 3)
Fmt02d(n) == ZeroPad(DigitsOf(n), 2)

\* int(text): the value of a run of decimal digits; -1 for what int() rejects
DigitValue(c) == DigitValueOf[c]
RECURSIVE IntOf(_)
IntOf(t) == IF t = <<>> \/ \E i \in 1..Len(t) : ~IsDigit(t[i]) THEN -1
            ELSE IF Len(t) = 1 THEN DigitValue(t[1])
            ELSE 10 * IntOf(SubSeq(t, 1, Len(t) - 1)) + DigitValue(t[Len(t)])

\* text.split("/")
RECURSIVE SplitSlash(_)
SplitSlash(t) ==
    IF \E i \in 1..Len(t) : t[i] = "/"
    THEN LET i == CHOOSE j \in 1..Len(t) : t[j] = "/" /\ \A k \in 1..(j - 1) : t[k] # "/"
         IN <<SubSeq(t, 1, i - 1)>> \o SplitSlash(SubSeq(t, i + 1, Len(t)))
    ELSE <<t>>

\* strftime("%d/%m/%Y")
FormatDate(now) ==
    Fmt02d(now.day) \o <<"/">> \o Fmt02d(now.month) \o <<"/">> \o DigitsOf(now.year)

----------------------------------------------------------------------------
(* Sequential invoice numbering *)

GUT == <<"G", "U", "T">>
CNDash == <<"C", "N", "-">>
NoName == <<>>          \* business_name absent (None) or ""

\* re.sub(r"[^A-Z0-9]", "", biz)
Cleaned(biz) == SelectSeq(biz, LAMBDA c : IsUpper(c) \/ IsDigit(c))

\* a variant: only letters count, GUT for fewer than three
get_invoice_prefix_letters_only(seller) ==
    LET biz == upper(IF seller.business_name # NoName THEN seller.business_name ELSE GUT)
        cleaned == SelectSeq(biz, IsUpper)
    IN  IF Len(cleaned) >= 3 THEN SubSeq(cleaned, 1, 3) ELSE GUT

get_invoice_prefix(seller) ==
    LET biz == upper(IF seller.business_name # NoName THEN seller.business_name ELSE GUT)
    IN  SubSeq(Cleaned(biz) \o GUT, 1, 3)

IsCreditNote(r) == r.invoice_type = "CREDIT NOTE"

\* a variant: the counting query leaves out the seller_phone filter
SeqRows_all_sellers(rows, phone, month, year, is_credit) ==
    {i \in DOMAIN rows :
        /\ rows[i].invoice_month = month
        /\ rows[i].invoice_year = year
        /\ IsCreditNote(rows[i]) = is_credit}

\* The rows the counting query selects:
\* seller_phone=eq, invoice_month=eq, invoice_year=eq, invoice_type=(n)eq.CREDIT NOTE
SeqRows(rows, phone, month, year, is_credit) ==
    {i \in DOMAIN rows :
        /\ rows[i].seller_phone = phone
        /\ rows[i].invoice_month = month
        /\ rows[i].invoice_year = year
        /\ IsCreditNote(rows[i]) = is_credit}

\* a variant: voided rows are not counted
get_next_seq_active_only(rows, phone, month, year, is_credit, ok) ==
    IF ok
    THEN Cardinality({i \in SeqRows(rows, phone, month, year, is_credit) :
                        ~rows[i].is_cancelled}) + 1
    ELSE 1

\* a variant: rows of both kinds are counted
get_next_seq_any_type(rows, phone, month, year, is_credit, ok) ==
    IF ok
    THEN Cardinality(SeqRows(rows, phone, month, year, TRUE)
                     \cup SeqRows(rows, phone, month, year, FALSE)) + 1
    ELSE 1

\* ok = FALSE: the request raised, or the reply was not a JSON list
get_next_seq(rows, phone, month, year, is_credit, ok) ==
    IF ok THEN Cardinality(SeqRows(rows, phone, month, year, is_credit)) + 1
    ELSE 1

FormatNumber(prefix, seq, month, year) ==
    prefix \o Fmt03d(seq) \o <<"-">> \o Fmt02d(month) \o DigitsOf(year)

generate_invoice_number(rows, phone, seller, month, year, ok) ==
    FormatNumber(get_invoice_prefix(seller),
                 get_next_seq(rows, phone, month, year, FALSE, ok), month, year)

\* a variant: the credit note takes its sequence from the regular invoices
generate_credit_note_number_regular_count(rows, phone, seller, month, year, ok) ==
    CNDash \o FormatNumber(get_invoice_prefix(seller),
                           get_next_seq(rows, phone, month, year, FALSE, ok), month, year)

generate_credit_note_number(rows, phone, seller, month, year, ok) ==
    CNDash \o FormatNumber(get_invoice_prefix(seller),
                           get_next_seq(rows, phone, month, year, TRUE, ok), month, year)

----------------------------------------------------------------------------
(* Cancel / credit note: the reference parser *)

NoRef == <<>>           \* parse_invoice_ref returned None

\* the length of the run of capital letters of t that starts at i
RECURSIVE RunLen(_, _)
RunLen(t, i) == IF i > Len(t) \/ ~IsUpper(t[i]) THEN 0 ELSE 1 + RunLen(t, i + 1)

AllDigits(t, a, b) == b <= Len(t) /\ \A j \in a..b : IsDigit(t[j])

\* \d{3}-\d{6} matches t at i
MatchBareAt(t, i) ==
    /\ AllDigits(t, i, i + 2)
    /\ i + 3 <= Len(t) /\ t[i + 3] = "-"
    /\ AllDigits(t, i + 4, i + 9)

\* [A-Z]{2,6}\d{3}-\d{6} matches t at i: the letters are followed by a digit,
\* so they are the whole run of letters that starts at i
MatchFullAt(t, i) ==
    LET k == RunLen(t, i) IN k \in 2..6 /\ MatchBareAt(t, i + k)

\* re.search: the leftmost position from i on where the pattern matches, 0 if none
RECURSIVE SearchBare(_, _)
SearchBare(t, i) == IF i > Len(t) THEN 0
                    ELSE IF MatchBareAt(t, i) THEN i ELSE SearchBare(t, i + 1)
RECURSIVE SearchFull(_, _)
SearchFull(t, i) == IF i > Len(t) THEN 0
                    ELSE IF MatchFullAt(t, i) THEN i ELSE SearchFull(t, i + 1)

parse_invoice_ref_bare_only(text) ==
    LET i == SearchBare(text, 1)
    IN  IF i > 0 THEN SubSeq(text, i, i + 9) ELSE NoRef

parse_invoice_ref(text) ==
    LET u == upper(text)
        i == SearchFull(u, 1)
    IN  IF i > 0 THEN SubSeq(u, i, i + RunLen(u, i) + 9)
        ELSE parse_invoice_ref_bare_only(text)

CancelWords == {<<"c","a","n","c","e","l">>, <<"v","o","i","d">>,
                <<"w","r","o","n","g"," ","i","n","v","o","i","c","e">>,
                <<"d","e","l","e","t","e"," ","i","n","v","o","i","c","e">>,
                <<"r","e","v","e","r","s","e"," ","i","n","v","o","i","c","e">>}

is_cancel_request(text) == LET tl == lower(text) IN \E k \in CancelWords : Contains(k, tl)

ReportWords == {<<"r","e","p","o","r","t">>, <<"s","u","m","m","a","r","y">>,
                <<"m","o","n","t","h","l","y">>, <<"l","a","s","t"," ","m","o","n","t","h">>,
                <<"t","a","x"," ","s","u","m","m","a","r","y">>,
                <<"i","n","v","o","i","c","e","s"," ","s","u","m","m","a","r","y">>}

is_report_request(text) == LET tl == lower(text) IN \E k \in ReportWords : Contains(k, tl)

----------------------------------------------------------------------------
(* The store: the sellers table *)

NoSeller == [phone_number |-> "none", onboarding_step |-> "", business_name |-> NoName]

NewSeller(phone) ==
    [phone_number |-> phone, onboarding_step |-> "language_asked", business_name |-> NoName]

\* What get_seller can return: limit=1 without an order picks any matching row;
\* a failed request gives None
get_seller(rows, phone, ok) ==
    LET hits == {i \in DOMAIN rows : rows[i].phone_number = phone}
    IN  IF ok /\ hits # {} THEN {rows[i] : i \in hits} ELSE {NoSeller}

\* POST sellers: the row is inserted when the request succeeds
create_seller(rows, phone, ok) == IF ok THEN Append(rows, NewSeller(phone)) ELSE rows

\* PATCH sellers?phone_number=eq.phone: every row of the phone takes the updates
update_seller(rows, phone, step, name, ok) ==
    IF ok
    THEN [i \in DOMAIN rows |->
            IF rows[i].phone_number = phone
            THEN [rows[i] EXCEPT !.onboarding_step = step,
                                 !.business_name = IF name = NoName THEN @ ELSE name]
            ELSE rows[i]]
    ELSE rows

----------------------------------------------------------------------------
(* The store: the invoices table *)

\* _inv_month, _inv_year of save_invoice: from the invoice's own date DD/MM/YYYY,
\* utcnow when the date is missing or does not parse
InvoicePeriod(d, now) ==
    LET parts == SplitSlash(d.invoice_date)
        ok3 == d.invoice_date # <<>> /\ Len(parts) = 3
        m == IF ok3 THEN IntOf(parts[2]) ELSE -1
        y == IF ok3 /\ m >= 0 THEN IntOf(parts[3]) ELSE -1
    IN  [month |-> IF m >= 0 THEN m ELSE now.month,
         year |-> IF y >= 0 THEN y ELSE now.year]

\* a variant: a credit note is inserted void
FullRow_credit_void(phone, d, now) ==
    [seller_phone |-> phone,
     invoice_type |-> d.invoice_type,
     invoice_number |-> d.invoice_number,
     total_amount |-> d.total_amount,
     invoice_data |-> d,
     invoice_month |-> InvoicePeriod(d, now).month,
     invoice_year |-> InvoicePeriod(d, now).year,
     taxable_value |-> d.taxable_value,
     cgst |-> d.cgst, sgst |-> d.sgst, igst |-> d.igst,
     is_cancelled |-> (d.invoice_type = "CREDIT NOTE"),
     credit_note_for |-> d.original_invoice_number,
     full |-> TRUE]

\* the row of the full insert ({**core, **extra})
FullRow(phone, d, now) ==
    [seller_phone |-> phone,
     invoice_type |-> d.invoice_type,
     invoice_number |-> d.invoice_number,
     total_amount |-> d.total_amount,
     invoice_data |-> d,
     invoice_month |-> InvoicePeriod(d, now).month,
     invoice_year |-> InvoicePeriod(d, now).year,
     taxable_value |-> d.taxable_value,
     cgst |-> d.cgst, sgst |-> d.sgst, igst |-> d.igst,
     is_cancelled |-> FALSE,
     credit_note_for |-> d.original_invoice_number,
     full |-> TRUE]

\* the row of the core-only insert: the extra columns take their defaults
CoreRow(phone, d, now) ==
    [FullRow(phone, d, now) EXCEPT !.taxable_value = 0, !.cgst = 0, !.sgst = 0, !.igst = 0,
                                   !.credit_note_for = <<>>, !.full = FALSE]

\* a variant: the rejected full insert has stored its row all the same, and the
\* core-only insert stores a second one
save_invoice_both_stored(rows, phone, d, now, outcome) ==
    CASE outcome = "full" -> Append(rows, FullRow(phone, d, now))
      [] outcome = "core" -> Append(Append(rows, FullRow(phone, d, now)),
                                    CoreRow(phone, d, now))
      [] OTHER -> rows

\* outcome: "full" the first insert succeeds; "core" it is rejected and the
\* core-only insert succeeds; "none" both are rejected or the request raises
save_invoice(rows, phone, d, now, outcome) ==
    CASE outcome = "full" -> Append(rows, FullRow(phone, d, now))
      [] outcome = "core" -> Append(rows, CoreRow(phone, d, now))
      [] OTHER -> rows

\* PATCH invoices?seller_phone=eq.phone&invoice_number=eq.number {"is_cancelled": true}
cancel_invoice_in_db(rows, phone, invoice_number, ok) ==
    IF ok
    THEN [i \in DOMAIN rows |->
            IF rows[i].seller_phone = phone /\ rows[i].invoice_number = invoice_number
            THEN [rows[i] EXCEPT !.is_cancelled = TRUE]
            ELSE rows[i]]
    ELSE rows

\* What get_invoice_by_number can return, as indices into the table (0: None)
get_invoice_by_number(rows, phone, invoice_number, ok) ==
    LET hits == {i \in DOMAIN rows : rows[i].seller_phone = phone
                                     /\ rows[i].invoice_number = invoice_number}
    IN  IF ok /\ hits # {} THEN hits ELSE {0}

get_all_monthly_invoices(rows, phone, month, year, ok) ==
    IF ok
    THEN SelectSeq(rows, LAMBDA r : r.seller_phone = phone /\ r.invoice_month = month
                                    /\ r.invoice_year = year)
    ELSE <<>>

----------------------------------------------------------------------------
(* The environment of one request: which calls to the store and to the     *)
(* external services fail while it is handled                              *)

\* save_full: the full insert is rejected; save_both: the core-only insert too;
\* save_raise: the request of the full insert raises
FaultNames == {"get_seller", "create_seller", "update_seller", "get1", "get2", "patch",
               "seq", "monthly", "llm", "upload", "save_full", "save_both", "save_raise"}

Envs == {e \in SUBSET FaultNames : Cardinality(e) <= MaxFaults}

SaveOutcome(e) == IF "save_raise" \in e \/ "save_both" \in e THEN "none"
                  ELSE IF "save_full" \in e THEN "core" ELSE "full"

\* log.warning / log.error of save_invoice
SaveLogs(e) == IF "save_raise" \in e THEN {"save_invoice failed"}
               ELSE IF "save_full" \in e \/ "save_both" \in e
               THEN {"save_invoice full failed"} ELSE {}

\* the POSTs save_invoice makes to the invoices table
SavePosts(e) == IF "save_raise" \in e THEN 1
                ELSE IF "save_full" \in e \/ "save_both" \in e THEN 2 ELSE 1

----------------------------------------------------------------------------
(* What a handler did: the rows it leaves, its outcome, the messages it    *)
(* sent with send_rest, the numbers it allocated, the documents it built,  *)
(* the error and warning records it logged                                 *)

NoPeriod == [month |-> 0, year |-> 0]    \* no report was asked for
NoReport == <<>>                         \* no report was delivered

Result(rows, op, out, sent) ==
    [inv |-> rows, op |-> op, out |-> out, sent |-> sent,
     cn_alloc |-> 0, inv_alloc |-> 0, docs |-> 0,
     orig |-> <<>>, number |-> <<>>, raised |-> FALSE,
     period |-> NoPeriod, report |-> NoReport, logs |-> {}, posts |-> 0]

----------------------------------------------------------------------------
(* Invoice pipeline *)

\* The JSON the field-extraction service returns: the invoice number and date of
\* the prompt, and the amounts of the dictated sale (two sales are modelled)
Draft(k, inv_no, today) ==
    [invoice_type |-> IF k = 1 THEN "TAX INVOICE" ELSE "BILL OF SUPPLY",
     invoice_number |-> inv_no,
     invoice_date |-> today,
     taxable_value |-> IF k = 1 THEN 100 ELSE 50,
     cgst |-> IF k = 1 THEN 9 ELSE 0,
     sgst |-> IF k = 1 THEN 9 ELSE 0,
     igst |-> 0,
     total_amount |-> IF k = 1 THEN 118 ELSE 50,
     cgst_rate |-> IF k = 1 THEN 9 ELSE 0,
     sgst_rate |-> IF k = 1 THEN 9 ELSE 0,
     igst_rate |-> 0,
     is_interstate |-> FALSE,
     items |-> IF k = 1 THEN <<[hsn_sac |-> <<"7","2","1","4">>, amount |-> 100]>>
               ELSE <<[hsn_sac |-> <<"1","0","0","6">>, amount |-> 30],
                      [hsn_sac |-> <<" ">>, amount |-> 20]>>,
     original_invoice_number |-> <<>>]

Drafts == {1, 2}

\* extract_invoice_data, select_and_generate_pdf, save_invoice and the two
\* messages of the invoice path of process_voice_note
IssueInvoice(rows, now, from_num, seller, e, k) ==
    LET inv_no == generate_invoice_number(rows, from_num, seller, now.month, now.year,
                                          "seq" \notin e)
        inv == Draft(k, inv_no, FormatDate(now))
        begun == [Result(rows, "invoice", "", 1) EXCEPT !.inv_alloc = 1]
    IN  IF "llm" \in e
        THEN [begun EXCEPT !.out = "extract_failed", !.sent = 2,
                           !.logs = {"process_voice_note error"}]
        ELSE IF "upload" \in e
        THEN [begun EXCEPT !.out = "crashed", !.sent = 2, !.docs = 1,
                           !.logs = {"process_voice_note error"}]
        ELSE [begun EXCEPT !.inv = save_invoice(rows, from_num, inv, now, SaveOutcome(e)),
                           !.out = "invoiced", !.sent = 2, !.docs = 1,
                           !.number = inv.invoice_number,
                           !.logs = SaveLogs(e), !.posts = SavePosts(e)]

----------------------------------------------------------------------------
(* Cancel / credit note *)

\* The rows `orig` can be after the two lookups of handle_cancel_request (0: None)
LookupOrig(rows, from_num, text, seller, e) ==
    LET ref == parse_invoice_ref(text)
        first == get_invoice_by_number(rows, from_num, ref, "get1" \notin e)
    IN  IF ref = NoRef THEN {0}
        ELSE IF first # {0} THEN first
        ELSE get_invoice_by_number(rows, from_num, get_invoice_prefix(seller) \o ref,
                                   "get2" \notin e)

\* a variant: the credit note keeps the date of the invoice it reverses
CreditOf_original_date(orig, cn_no, now) ==
    [orig.invoice_data EXCEPT !.invoice_type = "CREDIT NOTE",
                              !.invoice_number = cn_no,
                              !.original_invoice_number = orig.invoice_number]

\* log.error of get_invoice_by_number in the two lookups of handle_cancel_request:
\* the second lookup is made when the first returns None
LookupLogs(rows, from_num, text, e) ==
    LET ref == parse_invoice_ref(text)
        first == get_invoice_by_number(rows, from_num, ref, "get1" \notin e)
    IN  IF ref # NoRef /\ ("get1" \in e \/ (first = {0} /\ "get2" \in e))
        THEN {"get_invoice failed"} ELSE {}

\* the credit dict of handle_cancel_request
CreditOf(orig, cn_no, now) ==
    [orig.invoice_data EXCEPT !.invoice_type = "CREDIT NOTE",
                              !.invoice_number = cn_no,
                              !.invoice_date = FormatDate(now),
                              !.original_invoice_number = orig.invoice_number]

\* the cancellation of the row o: the void flip, the credit note's number, its
\* document and its record, and the message with the document
CancelOrig(found, rows, now, from_num, seller, e, o) ==
    LET orig == rows[o]
        voided == cancel_invoice_in_db(rows, from_num, orig.invoice_number, "patch" \notin e)
        cn_no == generate_credit_note_number(voided, from_num, seller,
                                             now.month, now.year, "seq" \notin e)
        credit == CreditOf(orig, cn_no, now)
        begun == [found EXCEPT !.inv = voided, !.cn_alloc = 1, !.docs = 1, !.number = cn_no,
                               !.logs = @ \cup IF "patch" \in e THEN {"cancel_invoice failed"}
                                                ELSE {}]
    IN  IF "upload" \in e
        THEN [begun EXCEPT !.out = "crashed", !.sent = 0, !.raised = TRUE]
        ELSE [begun EXCEPT !.inv = save_invoice(voided, from_num, credit, now, SaveOutcome(e)),
                           !.out = "cancelled",
                           !.logs = @ \cup SaveLogs(e), !.posts = SavePosts(e)]

\* a variant: the credit note's number is generated before the request is examined
handle_cancel_request_number_first(rows, now, from_num, text, seller, e, o) ==
    LET ref == parse_invoice_ref(text)
        early == [Result(rows, "cancel", "", 1) EXCEPT
                     !.cn_alloc = 1, !.logs = LookupLogs(rows, from_num, text, e)]
    IN  IF ref = NoRef THEN [early EXCEPT !.out = "no_ref"]
        ELSE IF o = 0 THEN [early EXCEPT !.out = "not_found"]
        ELSE IF rows[o].is_cancelled
        THEN [early EXCEPT !.out = "already_cancelled", !.orig = rows[o].invoice_number]
        ELSE IF IsCreditNote(rows[o])
        THEN [early EXCEPT !.out = "is_credit_note", !.orig = rows[o].invoice_number]
        ELSE CancelOrig([early EXCEPT !.orig = rows[o].invoice_number],
                        rows, now, from_num, seller, e, o)

\* o: the row the lookups returned, one of LookupOrig
handle_cancel_request(rows, now, from_num, text, seller, e, o) ==
    LET ref == parse_invoice_ref(text)
        looked == [Result(rows, "cancel", "", 1) EXCEPT
                      !.logs = LookupLogs(rows, from_num, text, e)]
    IN
    IF ref = NoRef THEN [looked EXCEPT !.out = "no_ref"]
    ELSE IF o = 0 THEN [looked EXCEPT !.out = "not_found"]
    ELSE
    LET orig == rows[o]
        found == [looked EXCEPT !.orig = orig.invoice_number]
    IN  IF orig.is_cancelled THEN [found EXCEPT !.out = "already_cancelled"]
        ELSE IF IsCreditNote(orig) THEN [found EXCEPT !.out = "is_credit_note"]
        ELSE CancelOrig(found, rows, now, from_num, seller, e, o)

----------------------------------------------------------------------------
(* Monthly report *)

MonthNames == << <<"j","a","n","u","a","r","y">>, <<"f","e","b","r","u","a","r","y">>,
                 <<"m","a","r","c","h">>, <<"a","p","r","i","l">>, <<"m","a","y">>,
                 <<"j","u","n","e">>, <<"j","u","l","y">>, <<"a","u","g","u","s","t">>,
                 <<"s","e","p","t","e","m","b","e","r">>, <<"o","c","t","o","b","e","r">>,
                 <<"n","o","v","e","m","b","e","r">>, <<"d","e","c","e","m","b","e","r">> >>

\* re.search(r"20\d{2}", text): the leftmost match
YearAt(t, i) == i + 3 <= Len(t) /\ t[i] = "2" /\ t[i + 1] = "0" /\ AllDigits(t, i + 2, i + 3)

RECURSIVE SearchYear(_, _)
SearchYear(t, i) == IF i > Len(t) THEN 0
                    ELSE IF YearAt(t, i) THEN i ELSE SearchYear(t, i + 1)

parse_month_year(text, now) ==
    LET tl == lower(text)
        at == SearchYear(text, 1)
        year == IF at > 0 THEN IntOf(SubSeq(text, at, at + 3)) ELSE now.year
        named == {m \in DOMAIN MonthNames : Contains(MonthNames[m], tl)}
    IN  [month |-> IF named # {} THEN CHOOSE m \in named : \A n \in named : m <= n
                   ELSE now.month,
         year |-> year]

\* the invoice types as texts
TypeText ==
    "TAX INVOICE" :> <<"T","A","X"," ","I","N","V","O","I","C","E">>
    @@ "BILL OF SUPPLY" :> <<"B","I","L","L"," ","O","F"," ","S","U","P","P","L","Y">>
    @@ "INVOICE" :> <<"I","N","V","O","I","C","E">>
    @@ "NON-GST" :> <<"N","O","N","-","G","S","T">>
    @@ "CREDIT NOTE" :> <<"C","R","E","D","I","T"," ","N","O","T","E">>
    @@ "Tax Bill" :> <<"T","a","x"," ","B","i","l","l">>
    @@ "RECEIPT" :> <<"R","E","C","E","I","P","T">>

TAX == <<"T","A","X">>
BILL == <<"B","I","L","L">>
NonGstTypes == {<<"I","N","V","O","I","C","E">>, <<"N","O","N","-","G","S","T">>, <<"N","O","N","G","S","T">>}

\* the columns of a row the report reads; float(x or 0) of a column that holds a number
parse_row(raw) ==
    [invoice_number |-> raw.invoice_number,
     invoice_type |-> raw.invoice_type,
     taxable_value |-> raw.taxable_value,
     cgst |-> raw.cgst, sgst |-> raw.sgst, igst |-> raw.igst,
     total_amount |-> raw.total_amount,
     data |-> raw.invoice_data,
     cancelled |-> raw.is_cancelled]

RECURSIVE SumSeq(_)
SumSeq(ns) == IF ns = <<>> THEN 0 ELSE Head(ns) + SumSeq(Tail(ns))

NumbersOf(list) == [i \in DOMAIN list |-> list[i].invoice_number]

\* round(amt * rate / 100, 2) of an amount and a rate whose product is a whole
\* number of hundreds, as those of the drafts are
Percent(amt, rate) == (amt * rate) \div 100

\* hsn after one line item of an invoice with the data d: the entry of the
\* item's code is made at its first item and takes the amount and the tax
HsnAdd(hsn, d, item) ==
    LET key == strip(item.hsn_sac)
        amt == item.amount
        entry == [hsn |-> key, taxable |-> 0, cgst |-> 0, sgst |-> 0, igst |-> 0]
        with == IF \E n \in DOMAIN hsn : hsn[n].hsn = key THEN hsn ELSE Append(hsn, entry)
        add(h) == IF d.is_interstate
                  THEN [h EXCEPT !.taxable = @ + amt, !.igst = @ + Percent(amt, d.igst_rate)]
                  ELSE [h EXCEPT !.taxable = @ + amt, !.cgst = @ + Percent(amt, d.cgst_rate),
                                 !.sgst = @ + Percent(amt, d.sgst_rate)]
    IN  IF key = <<>> THEN hsn
        ELSE [n \in DOMAIN with |-> IF with[n].hsn = key THEN add(with[n]) ELSE with[n]]

RECURSIVE HsnItems(_, _, _)
HsnItems(hsn, d, items) ==
    IF items = <<>> THEN hsn ELSE HsnItems(HsnAdd(hsn, d, Head(items)), d, Tail(items))

RECURSIVE HsnInvoices(_, _)
HsnInvoices(hsn, inv_list) ==
    IF inv_list = <<>> THEN hsn
    ELSE HsnInvoices(HsnItems(hsn, Head(inv_list).data, Head(inv_list).data.items),
                     Tail(inv_list))

\* the list of the entries, in the order the codes first occur
build_hsn(inv_list) == HsnInvoices(<<>>, inv_list)

\* the report dict, from the rows summed as gross, the rows listed by category
\* and the credit notes
ReportDict(regular, active, credit_ns, month, year) ==
    LET typed(i) == upper(TypeText[i.invoice_type])
        tax_inv == SelectSeq(active, LAMBDA i : Contains(TAX, typed(i)))
        bos_inv == SelectSeq(active, LAMBDA i : Contains(BILL, typed(i)))
        nongst_inv == SelectSeq(active, LAMBDA i : typed(i) \in NonGstTypes)
        gt == SumSeq([i \in DOMAIN regular |-> regular[i].taxable_value])
        gc == SumSeq([i \in DOMAIN regular |-> regular[i].cgst])
        gs == SumSeq([i \in DOMAIN regular |-> regular[i].sgst])
        gi == SumSeq([i \in DOMAIN regular |-> regular[i].igst])
        rc == SumSeq([i \in DOMAIN credit_ns |-> credit_ns[i].cgst])
        rs == SumSeq([i \in DOMAIN credit_ns |-> credit_ns[i].sgst])
        ri == SumSeq([i \in DOMAIN credit_ns |-> credit_ns[i].igst])
        net == (gc + gs + gi) - (rc + rs + ri)
    IN  [report_month |-> month, report_year |-> year,
         total_invoices |-> Len(regular), taxable_value |-> gt, total_gst |-> net,
         tax_invoices |-> NumbersOf(tax_inv),
         bos_invoices |-> NumbersOf(bos_inv),
         nongst_invoices |-> NumbersOf(nongst_inv),
         hsn_summary |-> build_hsn(active),
         credit_notes |-> NumbersOf(credit_ns),
         gross_taxable |-> gt, gross_cgst |-> gc, gross_sgst |-> gs, gross_igst |-> gi,
         reversed_cgst |-> rc, reversed_sgst |-> rs, reversed_igst |-> ri,
         net_gst |-> net]

\* a variant: the gross figures leave out the voided invoices
BuildReport_gross_active(all_raw, month, year) ==
    LET parsed == [i \in DOMAIN all_raw |-> parse_row(all_raw[i])]
        credit_ns == SelectSeq(parsed, LAMBDA q : q.invoice_type = "CREDIT NOTE")
        regular == SelectSeq(parsed, LAMBDA q : q.invoice_type # "CREDIT NOTE")
        active == SelectSeq(regular, LAMBDA q : ~q.cancelled)
    IN  ReportDict(active, active, credit_ns, month, year)

\* a variant: the breakdown by code is built from the voided invoices too
BuildReport_hsn_regular(all_raw, month, year) ==
    LET parsed == [i \in DOMAIN all_raw |-> parse_row(all_raw[i])]
        credit_ns == SelectSeq(parsed, LAMBDA q : q.invoice_type = "CREDIT NOTE")
        regular == SelectSeq(parsed, LAMBDA q : q.invoice_type # "CREDIT NOTE")
        active == SelectSeq(regular, LAMBDA q : ~q.cancelled)
    IN  [ReportDict(regular, active, credit_ns, month, year) EXCEPT
            !.hsn_summary = build_hsn(regular)]

\* the report of handle_report_request for the rows all_raw
BuildReport(all_raw, month, year) ==
    LET parsed == [i \in DOMAIN all_raw |-> parse_row(all_raw[i])]
        credit_ns == SelectSeq(parsed, LAMBDA q : q.invoice_type = "CREDIT NOTE")
        regular == SelectSeq(parsed, LAMBDA q : q.invoice_type # "CREDIT NOTE")
        active == SelectSeq(regular, LAMBDA q : ~q.cancelled)
    IN  ReportDict(regular, active, credit_ns, month, year)

\* a variant: the report is built and sent for an empty period too
handle_report_request_empty_report(rows, now, from_num, text, seller, e) ==
    LET period == parse_month_year(text, now)
        all_raw == get_all_monthly_invoices(rows, from_num, period.month, period.year,
                                            "monthly" \notin e)
        asked == [Result(rows, "report", "", 1) EXCEPT
                     !.period = period,
                     !.logs = IF "monthly" \in e THEN {"monthly_invoices failed"} ELSE {}]
    IN  IF "upload" \in e
        THEN [asked EXCEPT !.out = "crashed", !.sent = 0, !.docs = 1, !.raised = TRUE]
        ELSE [asked EXCEPT !.out = "report_sent", !.docs = 1,
                           !.report = BuildReport(all_raw, period.month, period.year)]

handle_report_request(rows, now, from_num, text, seller, e) ==
    LET period == parse_month_year(text, now)
        all_raw == get_all_monthly_invoices(rows, from_num, period.month, period.year,
                                            "monthly" \notin e)
        asked == [Result(rows, "report", "", 1) EXCEPT
                     !.period = period,
                     !.logs = IF "monthly" \in e THEN {"monthly_invoices failed"} ELSE {}]
    IN  IF all_raw = <<>> THEN [asked EXCEPT !.out = "no_invoices"]
        ELSE IF "upload" \in e
        THEN [asked EXCEPT !.out = "crashed", !.sent = 0, !.docs = 1, !.raised = TRUE]
        ELSE [asked EXCEPT !.out = "report_sent", !.docs = 1,
                           !.report = BuildReport(all_raw, period.month, period.year)]

----------------------------------------------------------------------------
(* Voice note background processor *)

\* a variant: an empty transcript is handed on to the extraction
process_voice_note_no_empty_check(rows, now, from_num, seller, tr, e, o, k) ==
    IF is_cancel_request(tr)
    THEN handle_cancel_request(rows, now, from_num, tr, seller, e, o)
    ELSE IF is_report_request(tr)
    THEN handle_report_request(rows, now, from_num, tr, seller, e)
    ELSE IssueInvoice(rows, now, from_num, seller, e, k)

\* tr: the transcript; an exception of a handler is caught and reported
process_voice_note(rows, now, from_num, seller, tr, e, o, k) ==
    LET caught(r) == IF r.raised
                     THEN [r EXCEPT !.sent = @ + 1,
                                    !.logs = @ \cup {"process_voice_note error"}]
                     ELSE r
    IN
    IF strip(tr) = <<>> THEN Result(rows, "transcribe", "not_understood", 1)
    ELSE IF is_cancel_request(tr)
    THEN caught(handle_cancel_request(rows, now, from_num, tr, seller, e, o))
    ELSE IF is_report_request(tr)
    THEN caught(handle_report_request(rows, now, from_num, tr, seller, e))
    ELSE IssueInvoice(rows, now, from_num, seller, e, k)

----------------------------------------------------------------------------
(* Onboarding flow *)

GREETINGS == {<<"h","i">>, <<"h","e","l","l","o">>, <<"h","e","y">>, <<"h","i","i">>,
              <<"h","e","l","o">>, <<"s","t","a","r","t">>,
              <<"n","a","m","a","s","t","e">>}

\* a variant: any answer to the language question moves the seller on
handle_onboarding_any_language(step, body) ==
    LET tl == lower(strip(body))
        keep == [write |-> FALSE, step |-> step, name |-> NoName]
        goto(s) == [write |-> TRUE, step |-> s, name |-> NoName]
    IN  CASE step = "language_asked" -> goto("registration_asked")
          [] step = "registration_asked" ->
                IF Contains(<<"y","e","s">>, tl) THEN goto("reg_name") ELSE goto("complete")
          [] step = "reg_name" ->
                IF strip(body) = <<>> THEN keep
                ELSE [write |-> TRUE, step |-> "reg_address", name |-> strip(body)]
          [] step = "reg_address" ->
                IF strip(body) = <<>> THEN keep ELSE goto("reg_gstin")
          [] step = "reg_gstin" -> goto("complete")
          [] OTHER -> goto("complete")

\* The update handle_onboarding writes for the seller's step and the body:
\* [write, step, name]; write = FALSE when it only repeats its question
handle_onboarding(step, body) ==
    LET tl == lower(strip(body))
        keep == [write |-> FALSE, step |-> step, name |-> NoName]
        goto(s) == [write |-> TRUE, step |-> s, name |-> NoName]
    IN  CASE step = "language_asked" ->
                IF Contains(<<"1">>, tl) \/ Contains(<<"e","n","g","l","i","s","h">>, tl)
                   \/ Contains(<<"2">>, tl) \/ Contains(<<"t","e","l","u","g","u">>, tl)
                THEN goto("registration_asked") ELSE keep
          [] step = "registration_asked" ->
                IF Contains(<<"y","e","s">>, tl) THEN goto("reg_name") ELSE goto("complete")
          [] step = "reg_name" ->
                IF strip(body) = <<>> THEN keep
                ELSE [write |-> TRUE, step |-> "reg_address", name |-> strip(body)]
          [] step = "reg_address" ->
                IF strip(body) = <<>> THEN keep ELSE goto("reg_gstin")
          [] step = "reg_gstin" -> goto("complete")
          [] OTHER -> goto("complete")

----------------------------------------------------------------------------
(* The requests the model sends *)

Hi == <<"h","i">>
Help == <<"h","e","l","p">>
Update == <<"u","p","d","a","t","e">>
Register == <<"r","e","g","i","s","t","e","r">>
Status == <<"s","t","a","t","u","s">>
CancelWord == <<"c","a","n","c","e","l">>
ReportWord == <<"r","e","p","o","r","t">>
Dictation == <<"s","a","l","e">>
ReportFebruary == <<"r","e","p","o","r","t"," ","f","e","b","r","u","a","r","y"," ","2","0","2","6">>

\* the form field NumMedia: absent, or a text
NoField == [present |-> FALSE, text |-> <<>>]
Field(t) == [present |-> TRUE, text |-> t]
NumMedias == {NoField, Field(<<"0">>), Field(<<"1">>), Field(<<>>), Field(<<"x">>)}

\* int(request.form.get("NumMedia", 0)); -1: int() raises ValueError
num_media(field) == IF field.present THEN IntOf(field.text) ELSE 0

\* the business names sellers type
Names == {<<"T","e","j">>, <<"A","1"," ","T">>}

\* a number no row carries
StrayNumber == <<"X","Y","Z","0","0","9","-","0","1","2","0","2","0">>

\* what a seller can quote in a cancellation: the number of any stored row, the
\* same without its three-character prefix, a stray number, or nothing
Quotes ==
    {invoices[i].invoice_number : i \in DOMAIN invoices}
    \cup {SubSeq(invoices[i].invoice_number, 4, Len(invoices[i].invoice_number)) :
            i \in {j \in DOMAIN invoices : ~IsCreditNote(invoices[j])}}
    \cup {StrayNumber, <<>>}

CancelTexts == {IF q = <<>> THEN CancelWord ELSE CancelWord \o <<" ">> \o q : q \in Quotes}

\* A seller who is asked for the business name answers with a name or with
\* nothing; otherwise any of the other texts is sent
Bodies(phone) ==
    IF \E i \in DOMAIN sellers : /\ sellers[i].phone_number = phone
                                 /\ sellers[i].onboarding_step = "reg_name"
    THEN Names \cup {<<>>, Hi}
    ELSE {Hi, <<"1">>, <<"y","e","s">>, <<"s","k","i","p">>, Update, Help, ReportWord, <<>>}
         \cup CancelTexts

Transcripts == {<<>>, Dictation, ReportWord} \cup CancelTexts

IsDictation(tr) == strip(tr) # <<>> /\ ~is_cancel_request(tr) /\ ~is_report_request(tr)

----------------------------------------------------------------------------
(* The state *)

Clock0 == [day |-> 5, month |-> 2, year |-> 2026]

NoLast == [phone |-> "none", via |-> "none", text |-> <<>>, op |-> "none", out |-> "",
           sent |-> 0, cn_alloc |-> 0, inv_alloc |-> 0, docs |-> 0,
           orig |-> <<>>, number |-> <<>>, period |-> NoPeriod, report |-> NoReport,
           reply |-> "none", logs |-> {}, posts |-> 0, heard |-> FALSE]

\* the record of a handled request; the webhook has returned twiml_reply(...);
\* text: the body of a text message, the transcript of a spoken cancellation;
\* logs: the error and warning records of the worker; posts: its inserts;
\* heard: the request carried a voice note and its transcript is not empty
Last(phone, via, text, r) ==
    [phone |-> phone, via |-> via, text |-> IF via = "text" \/ r.op = "cancel" THEN text ELSE <<>>,
     op |-> r.op, out |-> r.out, sent |-> r.sent, cn_alloc |-> r.cn_alloc,
     inv_alloc |-> r.inv_alloc, docs |-> r.docs, orig |-> r.orig, number |-> r.number,
     period |-> r.period, report |-> r.report, reply |-> "twiml", logs |-> r.logs,
     posts |-> r.posts, heard |-> via = "voice" /\ strip(text) # <<>>]

NoFormat == [name |-> <<>>, seq |-> 0, month |-> 0, year |-> 0]
NoOutput == [done |-> FALSE, prefix |-> <<>>, number |-> <<>>]

Regular(rows) == {i \in DOMAIN rows : ~IsCreditNote(rows[i])}
Credits(rows) == {i \in DOMAIN rows : IsCreditNote(rows[i])}

\* the bounds of a specification
Bounds(inv, cn, rows, flt, sales) ==
    [inv |-> inv, cn |-> cn, rows |-> rows, faults |-> flt, drafts |-> sales]

WithinBounds(B, srows, rows, e) ==
    /\ Len(srows) <= B.rows
    /\ Cardinality(Regular(rows)) <= B.inv
    /\ Cardinality(Credits(rows)) <= B.cn
    /\ faults + Cardinality(e) <= B.faults

\* a seller who has registered the business under a name
Registered(phone, name) ==
    [NewSeller(phone) EXCEPT !.onboarding_step = "complete", !.business_name = name]

\* the worker threads of the webhook; a thread that is not running holds the
\* record of the job it ended, or none; passed: the row the lookups of a
\* cancellation returned was found active and no credit note
Threads == {"t1", "t2"}

NoJob == [pc |-> "idle", kind |-> "none", phone |-> "none", seller |-> NoSeller,
          text |-> <<>>, seq |-> 0, number |-> <<>>, orig |-> NoSeller, at |-> 0,
          passed |-> FALSE, out |-> ""]

\* the store as it starts, with the sellers of srows
Start(srows) ==
    /\ workers = [t \in Threads |-> NoJob]
    /\ sellers = srows
    /\ invoices = <<>>
    /\ clock = Clock0
    /\ faults = 0
    /\ last = NoLast

\* the tables are empty
Init == Start(<<>>) /\ fin = NoFormat /\ fout = NoOutput

\* one seller has registered
InitRegistered ==
    Start(<<Registered("p1", <<"T","e","j">>)>>) /\ fin = NoFormat /\ fout = NoOutput

----------------------------------------------------------------------------
(* The webhook, with the worker it starts run to its end *)

\* the calls a request makes, by the branch it takes
Relevant(isNew, media, text, step) ==
    LET worker(t) == IF is_cancel_request(t)
                     THEN {"get1", "get2", "patch", "seq", "upload", "save_full", "save_both",
                           "save_raise"}
                     ELSE IF is_report_request(t) THEN {"monthly", "upload"}
                     ELSE {}
        tl == lower(strip(text))
    IN  {"get_seller"}
        \cup (IF isNew THEN {"create_seller"} ELSE {})
        \cup (IF media
              THEN IF strip(text) = <<>> THEN {}
                   ELSE IF IsDictation(text)
                   THEN {"seq", "llm", "upload", "save_full", "save_both", "save_raise"}
                   ELSE worker(text)
              ELSE IF isNew THEN {}
              ELSE IF tl \in GREETINGS \/ step # "complete" \/ tl \in {Update, Register}
              THEN {"update_seller"}
              ELSE IF tl \in {Help, Status} THEN {}
              ELSE worker(text))

\* The form of the request is read before the try block: a NumMedia that int()
\* rejects ends the request with the exception, and no reply is built
WebhookForm(phone, field) ==
    /\ num_media(field) < 0
    /\ last' = [NoLast EXCEPT !.phone = phone, !.via = "form", !.op = "webhook",
                              !.out = "raised", !.reply = "error"]
    /\ UNCHANGED <<sellers, invoices, clock, faults, fin, fout, workers>>

\* a variant: a voice note is taken only from a seller whose onboarding is complete
WebhookVoice_when_complete(phone, tr, e, B) ==
    \E seller \in get_seller(sellers, phone, "get_seller" \notin e) :
      /\ seller # NoSeller /\ seller.onboarding_step = "complete"
      /\ {field \in NumMedias : num_media(field) > 0} # {}
      /\ e \subseteq Relevant(FALSE, TRUE, tr, seller.onboarding_step)
      /\ \E o \in LookupOrig(invoices, phone, tr, seller, e) :
         \E k \in IF IsDictation(tr) THEN B.drafts ELSE {1} :
           LET r == process_voice_note(invoices, clock, phone, seller, tr, e, o, k) IN
           /\ invoices' = r.inv
           /\ last' = Last(phone, "voice", tr, r)
           /\ WithinBounds(B, sellers, invoices', e)
      /\ faults' = faults + Cardinality(e)
      /\ UNCHANGED <<sellers, clock, fin, fout, workers>>

\* STEP 1 with a voice note, and STEP 2: process_voice_note on a worker
WebhookVoice(phone, tr, e, B) ==
    \E seller \in get_seller(sellers, phone, "get_seller" \notin e) :
      LET isNew == seller = NoSeller
          s == IF isNew THEN NewSeller(phone) ELSE seller
      IN  /\ {field \in NumMedias : num_media(field) > 0} # {}
          /\ e \subseteq Relevant(isNew, TRUE, tr, s.onboarding_step)
          /\ \E o \in LookupOrig(invoices, phone, tr, s, e) :
             \E k \in IF IsDictation(tr) THEN B.drafts ELSE {1} :
               LET r == process_voice_note(invoices, clock, phone, s, tr, e, o, k) IN
               /\ sellers' = IF isNew
                             THEN create_seller(sellers, phone, "create_seller" \notin e)
                             ELSE sellers
               /\ invoices' = r.inv
               /\ last' = Last(phone, "voice", tr, r)
               /\ WithinBounds(B, sellers', invoices', e)
          /\ faults' = faults + Cardinality(e)
          /\ UNCHANGED <<clock, fin, fout, workers>>

\* STEP 1 without a voice note, STEP 3 and STEP 4: the replies that start no worker
WebhookText(phone, body, e, B) ==
    \E seller \in get_seller(sellers, phone, "get_seller" \notin e) :
      LET isNew == seller = NoSeller
          tl == lower(strip(body))
          upd_ok == "update_seller" \notin e
          step == seller.onboarding_step
          ob == handle_onboarding(step, body)
          done(op) == Last(phone, "text", body, Result(invoices, op, "replied", 0))
      IN  /\ {field \in NumMedias : num_media(field) = 0} # {}
          /\ e \subseteq Relevant(isNew, FALSE, body, step)
          /\ \/ /\ isNew
                /\ sellers' = create_seller(sellers, phone, "create_seller" \notin e)
                /\ last' = done("welcome")
             \/ /\ ~isNew /\ tl \in GREETINGS
                /\ sellers' = update_seller(sellers, phone, "language_asked", NoName, upd_ok)
                /\ last' = done("greeting")
             \/ /\ ~isNew /\ tl \notin GREETINGS /\ step \notin {"complete", ""}
                /\ sellers' = IF ob.write
                              THEN update_seller(sellers, phone, ob.step, ob.name, upd_ok)
                              ELSE sellers
                /\ last' = done("onboarding")
          /\ WithinBounds(B, sellers', invoices, e)
          /\ faults' = faults + Cardinality(e)
          /\ UNCHANGED <<invoices, clock, fin, fout, workers>>

\* STEP 5: the main commands, for a seller whose onboarding is complete
WebhookCommand(phone, body, e, B) ==
    \E seller \in get_seller(sellers, phone, "get_seller" \notin e) :
      LET tl == lower(strip(body))
          step == seller.onboarding_step
          done(op) == Last(phone, "text", body, Result(invoices, op, "replied", 0))
      IN  /\ {field \in NumMedias : num_media(field) = 0} # {}
          /\ seller # NoSeller /\ tl \notin GREETINGS /\ step \in {"complete", ""}
          /\ e \subseteq Relevant(FALSE, FALSE, body, step)
          /\ \/ /\ tl \in {Help, Status}
                /\ UNCHANGED <<sellers, invoices>>
                /\ last' = done("help")
             \/ /\ tl \notin {Help, Status} /\ tl \in {Update, Register}
                /\ sellers' = update_seller(sellers, phone, "reg_name", NoName,
                                            "update_seller" \notin e)
                /\ UNCHANGED invoices
                /\ last' = done("update")
             \/ /\ tl \notin {Help, Status, Update, Register} /\ is_cancel_request(body)
                /\ \E o \in LookupOrig(invoices, phone, body, seller, e) :
                     LET r == handle_cancel_request(invoices, clock, phone, body, seller, e, o)
                     IN  /\ invoices' = r.inv
                         /\ last' = Last(phone, "text", body, r)
                /\ UNCHANGED sellers
             \/ /\ tl \notin {Help, Status, Update, Register} /\ ~is_cancel_request(body)
                /\ is_report_request(body)
                /\ last' = Last(phone, "text", body,
                                handle_report_request(invoices, clock, phone, body, seller, e))
                /\ UNCHANGED <<sellers, invoices>>
             \/ /\ tl \notin {Help, Status, Update, Register} /\ ~is_cancel_request(body)
                /\ ~is_report_request(body)
                /\ UNCHANGED <<sellers, invoices>>
                /\ last' = done("nudge")
          /\ WithinBounds(B, sellers', invoices', e)
          /\ faults' = faults + Cardinality(e)
          /\ UNCHANGED <<clock, fin, fout, workers>>

\* a month passes
Tick ==
    /\ clock.month < Clock0.month + MaxTicks
    /\ clock' = [clock EXCEPT !.month = @ + 1]
    /\ last' = [NoLast EXCEPT !.op = "tick"]
    /\ UNCHANGED <<sellers, invoices, faults, fin, fout, workers>>

----------------------------------------------------------------------------
(* Specifications *)

BooksBounds == Bounds(MaxInvoices, MaxCredits, MaxSellerRows, 0, {1})
OnboardBounds == Bounds(OnbInvoices, OnbCredits, OnbSellerRows, 0, {1})
FaultBounds == Bounds(FltInvoices, FltCredits, MaxSellerRows, MaxFaults, Drafts)

\* the texts a registered seller sends that leave the profile alone
Commands == {Help, ReportFebruary, <<>>} \cup CancelTexts

\* what a seller says in a voice note: p2 only dictates sales
Says(phone) == IF phone = "p1" THEN Transcripts ELSE {Dictation}

\* Invoices, cancellations and reports over two months, beside the invoices of a
\* second seller; no call fails
Next ==
    \/ \E phone \in Phones : \E tr \in Says(phone) : WebhookVoice(phone, tr, {}, BooksBounds)
    \/ \E phone \in Phones, body \in Commands : WebhookCommand(phone, body, {}, BooksBounds)
    \/ Tick

Spec == InitRegistered /\ [][Next]_vars

\* Every request of the webhook, registration and renaming included; no call fails
NextOnboard ==
    \/ \E phone \in Phones, tr \in Transcripts : WebhookVoice(phone, tr, {}, OnboardBounds)
    \/ \E phone \in Phones : \E body \in Bodies(phone) :
          WebhookText(phone, body, {}, OnboardBounds)
    \/ \E phone \in Phones : \E body \in Bodies(phone) :
          WebhookCommand(phone, body, {}, OnboardBounds)
    \/ \E phone \in Phones, field \in NumMedias : WebhookForm(phone, field)

SpecOnboard == Init /\ [][NextOnboard]_vars

\* Invoices, cancellations and reports where calls to the store and services fail
EnvsLeft == {e \in Envs : faults + Cardinality(e) <= MaxFaults}

NextFaults ==
    \/ \E phone \in Phones, e \in EnvsLeft : \E tr \in Says(phone) :
          WebhookVoice(phone, tr, e, FaultBounds)
    \/ \E phone \in Phones, body \in Commands, e \in EnvsLeft :
          WebhookCommand(phone, body, e, FaultBounds)

SpecFaults == InitRegistered /\ [][NextFaults]_vars

\* One registered seller dictates invoices and cancels by text, quoting the
\* numbers of invoices and of credit notes; no call fails
CreditBounds == Bounds(CrdInvoices, CrdCredits, MaxSellerRows, 0, Drafts)

NextCredits ==
    \/ WebhookVoice("p1", Dictation, {}, CreditBounds)
    \/ \E body \in CancelTexts : WebhookCommand("p1", body, {}, CreditBounds)

SpecCredits == InitRegistered /\ [][NextCredits]_vars

\* Two sellers dictate invoices while the counting lookup of the allocator fails
\* now and then
StormBounds == Bounds(StormInvoices, 0, MaxSellerRows, StormFaults, Drafts)

NextStorm ==
    \E phone \in Phones, e \in {{}, {"seq"}} : WebhookVoice(phone, Dictation, e, StormBounds)

SpecStorm == InitRegistered /\ [][NextStorm]_vars

----------------------------------------------------------------------------
(* The workers of one seller step by step: each call of a worker to the     *)
(* store is a step of its own, and the steps of two workers interleave.     *)
(* No call fails; the messages of the workers are not recorded.             *)

Running(kind) == {t \in Threads : workers[t].kind = kind /\ workers[t].pc # "done"}

Step(t, job) ==
    /\ workers' = [workers EXCEPT ![t] = job]
    /\ UNCHANGED <<sellers, clock, faults, last, fin, fout>>

\* webhook STEP 2: a dictated sale; the thread is given the seller's record
VoiceStart(t, phone) ==
    /\ workers[t].pc \in {"idle", "done"}
    /\ Cardinality(Regular(invoices)) + Cardinality(Running("invoice")) < RaceInvoices
    /\ \E seller \in get_seller(sellers, phone, TRUE) :
          /\ seller # NoSeller
          /\ Step(t, [NoJob EXCEPT !.pc = "extract", !.kind = "invoice",
                                   !.phone = phone, !.seller = seller, !.text = Dictation])
    /\ UNCHANGED invoices

\* extract_invoice_data: generate_invoice_number reads the count
VoiceExtract(t) ==
    LET job == workers[t]
        seq == get_next_seq(invoices, job.phone, clock.month, clock.year, FALSE, TRUE)
    IN  /\ job.pc = "extract"
        /\ Step(t, [job EXCEPT !.pc = "save", !.seq = seq,
                               !.number = generate_invoice_number(invoices, job.phone,
                                             job.seller, clock.month, clock.year, TRUE)])
        /\ UNCHANGED invoices

\* a variant: the number is allocated when the record is stored
VoiceSave_recount(t) ==
    LET job == workers[t]
        number == generate_invoice_number(invoices, job.phone, job.seller,
                                          clock.month, clock.year, TRUE)
    IN  /\ job.pc = "save"
        /\ invoices' = save_invoice(invoices, job.phone,
                                    Draft(1, number, FormatDate(clock)), clock, "full")
        /\ Step(t, [job EXCEPT !.pc = "done", !.out = "invoiced", !.number = number,
                               !.at = Len(invoices')])

\* select_and_generate_pdf, save_invoice and the messages: the record is stored
\* under the number extract_invoice_data was given
VoiceSave(t) ==
    LET job == workers[t] IN
    /\ job.pc = "save"
    /\ invoices' = save_invoice(invoices, job.phone,
                                Draft(1, job.number, FormatDate(clock)), clock, "full")
    /\ Step(t, [job EXCEPT !.pc = "done", !.out = "invoiced", !.at = Len(invoices')])

\* webhook STEP 5, CANCEL: handle_cancel_request on a thread
CancelStart(t, phone, text) ==
    /\ workers[t].pc \in {"idle", "done"}
    /\ is_cancel_request(text)
    /\ Cardinality(Credits(invoices)) + Cardinality(Running("cancel")) < RaceCredits
    /\ \E seller \in get_seller(sellers, phone, TRUE) :
          /\ seller # NoSeller
          /\ Step(t, [NoJob EXCEPT !.pc = "lookup", !.kind = "cancel",
                                   !.phone = phone, !.seller = seller, !.text = text])
    /\ UNCHANGED invoices

\* the lookups of handle_cancel_request and its checks of the row they return
CancelLookup(t) ==
    LET job == workers[t]
        end(out) == [job EXCEPT !.pc = "done", !.out = out]
    IN  /\ job.pc = "lookup"
        /\ \E o \in LookupOrig(invoices, job.phone, job.text, job.seller, {}) :
              Step(t, IF o = 0 THEN end("not_found")
                      ELSE IF invoices[o].is_cancelled
                      THEN [end("already_cancelled") EXCEPT !.orig = invoices[o]]
                      ELSE IF IsCreditNote(invoices[o])
                      THEN [end("is_credit_note") EXCEPT !.orig = invoices[o]]
                      ELSE [job EXCEPT !.pc = "flip", !.orig = invoices[o],
                                       !.passed = TRUE])
        /\ UNCHANGED invoices

\* a variant: the flip is a conditional update, and a worker whose update
\* changed no row stops
CancelFlip_if_active(t) ==
    LET job == workers[t]
        n == job.orig.invoice_number
        hit == {i \in DOMAIN invoices : /\ invoices[i].seller_phone = job.phone
                                        /\ invoices[i].invoice_number = n
                                        /\ ~invoices[i].is_cancelled}
    IN  /\ job.pc = "flip"
        /\ invoices' = cancel_invoice_in_db(invoices, job.phone, n, TRUE)
        /\ Step(t, IF hit = {} THEN [job EXCEPT !.pc = "done", !.out = "already_cancelled"]
                   ELSE [job EXCEPT !.pc = "number"])

\* cancel_invoice_in_db: the void flag is written whatever it holds
CancelFlip(t) ==
    LET job == workers[t] IN
    /\ job.pc = "flip"
    /\ invoices' = cancel_invoice_in_db(invoices, job.phone, job.orig.invoice_number, TRUE)
    /\ Step(t, [job EXCEPT !.pc = "number"])

\* generate_credit_note_number reads the count of the credit notes
CancelNumber(t) ==
    LET job == workers[t]
        seq == get_next_seq(invoices, job.phone, clock.month, clock.year, TRUE, TRUE)
    IN  /\ job.pc = "number"
        /\ Step(t, [job EXCEPT !.pc = "credit", !.seq = seq,
                               !.number = generate_credit_note_number(invoices, job.phone,
                                             job.seller, clock.month, clock.year, TRUE)])
        /\ UNCHANGED invoices

\* the credit dict, its document and save_invoice
CancelSave(t) ==
    LET job == workers[t] IN
    /\ job.pc = "credit"
    /\ invoices' = save_invoice(invoices, job.phone,
                                CreditOf(job.orig, job.number, clock), clock, "full")
    /\ Step(t, [job EXCEPT !.pc = "done", !.out = "cancelled", !.at = Len(invoices')])

\* the cancellations a seller sends: each quotes the number of a stored invoice
RaceTexts == {CancelWord \o <<" ">> \o invoices[i].invoice_number : i \in Regular(invoices)}

NextRace ==
    \E t \in Threads :
        \/ VoiceStart(t, "p1")
        \/ VoiceExtract(t)
        \/ VoiceSave(t)
        \/ \E text \in RaceTexts : CancelStart(t, "p1", text)
        \/ CancelLookup(t)
        \/ CancelFlip(t)
        \/ CancelNumber(t)
        \/ CancelSave(t)

SpecRace == InitRegistered /\ [][NextRace]_vars

----------------------------------------------------------------------------
(* The number formatter alone: a business name, a count of earlier invoices *)
(* of the period, and a period                                             *)

NameChars == {"a", "B", "7", " "}
FormatNames == UNION {[1..n -> NameChars] : n \in 0..MaxNameLen}
FormatSeqs == {10 ^ (d - 1) : d \in 1..MaxSeqDigits}

InitFormat ==
    /\ Start(<<>>)
    /\ fin \in [name : FormatNames, seq : FormatSeqs, month : {1, 12}, year : {2026}]
    /\ fout = NoOutput

\* generate_invoice_number for a seller named fin.name whose table holds
\* fin.seq - 1 invoices of the period
Format ==
    /\ ~fout.done
    /\ LET seller == Registered("p1", fin.name)
           now == [day |-> 1, month |-> fin.month, year |-> fin.year]
           row == FullRow("p1", Draft(1, <<>>, FormatDate(now)), now)
           rows == [i \in 1..(fin.seq - 1) |-> row]
       IN  fout' = [done |-> TRUE,
                    prefix |-> get_invoice_prefix(seller),
                    number |-> generate_invoice_number(rows, "p1", seller,
                                                       fin.month, fin.year, TRUE)]
    /\ UNCHANGED <<sellers, invoices, clock, faults, last, fin, workers>>

SpecFormat == InitFormat /\ [][Format]_vars

\* The invoice numbered by generate_invoice_number is stored as the fin.seq-th
\* invoice of the seller's period, and the seller sends "cancel" with that
\* number: the originals handle_cancel_request goes on with
RoundTrip ==
    /\ ~fout.done
    /\ LET seller == Registered("p1", fin.name)
           now == [day |-> 1, month |-> fin.month, year |-> fin.year]
           prefix == get_invoice_prefix(seller)
           row(n) == FullRow("p1", Draft(1, n, FormatDate(now)), now)
           earlier == [i \in 1..(fin.seq - 1) |->
                          row(FormatNumber(prefix, i, fin.month, fin.year))]
           number == generate_invoice_number(earlier, "p1", seller,
                                             fin.month, fin.year, TRUE)
           rows == Append(earlier, row(number))
           text == CancelWord \o <<" ">> \o number
       IN  fout' = [done |-> TRUE, prefix |-> prefix, number |-> number,
                    resolved |-> {handle_cancel_request(rows, now, "p1", text,
                                                        seller, {}, o).orig :
                                    o \in LookupOrig(rows, "p1", text, seller, {})}]
    /\ UNCHANGED <<sellers, invoices, clock, faults, last, fin, workers>>

SpecRoundTrip == InitFormat /\ [][RoundTrip]_vars

----------------------------------------------------------------------------
(* The report builder alone: the rows of one seller and period, of every    *)
(* invoice type, void or not                                               *)

ReportTypes == DOMAIN TypeText

\* the i-th row of the period, of the type tag and the sale k, void or not
ReportRow(i, tag, void, k) ==
    LET no == FormatNumber(<<"T","E","J">>, i, Clock0.month, Clock0.year)
        d == [Draft(k, no, FormatDate(Clock0)) EXCEPT !.invoice_type = tag]
    IN  [FullRow("p1", d, Clock0) EXCEPT !.is_cancelled = void]

ReportInputs ==
    UNION {{[i \in 1..n |-> ReportRow(i, tags[i], voids[i], sales[i])] :
                tags \in [1..n -> ReportTypes], voids \in [1..n -> BOOLEAN],
                sales \in [1..n -> Drafts]} :
           n \in 1..MaxReportRows}

InitReport ==
    /\ Start(<<>>)
    /\ fin \in ReportInputs
    /\ fout = NoOutput

\* handle_report_request from the parsing of the rows to the report dict
Report ==
    /\ ~fout.done
    /\ fout' = [done |-> TRUE, report |-> BuildReport(fin, Clock0.month, Clock0.year)]
    /\ UNCHANGED <<sellers, invoices, clock, faults, last, fin, workers>>

SpecReport == InitReport /\ [][Report]_vars

----------------------------------------------------------------------------
(* Claims on the format of invoice numbers *)

Letters(t) == SelectSeq(t, LAMBDA c : IsUpper(c) \/ IsLower(c))
LettersAndDigits(t) == SelectSeq(t, LAMBDA c : IsUpper(c) \/ IsLower(c) \/ IsDigit(c))

\* the number n reads: three characters, the sequence in at least three digits,
\* a dash, the month in two digits, the year
ReadsAs(n, prefix, seq, month, year) ==
    LET k == Len(n) IN
    /\ k >= 13
    /\ SubSeq(n, 1, 3) = prefix
    /\ IntOf(SubSeq(n, 4, k - 7)) = seq
    /\ (k > 13 => n[4] # "0")
    /\ n[k - 6] = "-"
    /\ IntOf(SubSeq(n, k - 5, k - 4)) = month
    /\ IntOf(SubSeq(n, k - 3, k)) = year

\* p is the prefix of the business name: the letters and digits of the name in
\* capitals, then G, U, T, cut after three characters
PrefixRule(name, p) ==
    LET kept == LettersAndDigits(name) IN
    /\ Len(p) = 3
    /\ \A i \in 1..3 : p[i] = IF i <= Len(kept) THEN UpperChar(kept[i])
                               ELSE GUT[i - Len(kept)]

----------------------------------------------------------------------------
(* Claims on the sequence numbers *)

\* the sequence number a stored number carries, of an invoice and of a credit note
SeqOf(n) == IntOf(SubSeq(n, 4, Len(n) - 7))
NumberPart(r) == IF IsCreditNote(r) THEN SubSeq(r.invoice_number, 4, Len(r.invoice_number))
                 ELSE r.invoice_number

\* the invoices issued under a seller and a period, in the order of issue
IssuedUnder(phone, month, year) ==
    SelectSeq(invoices, LAMBDA r : /\ r.seller_phone = phone
                                   /\ r.invoice_month = month /\ r.invoice_year = year
                                   /\ ~IsCreditNote(r))

CreditsOf(phone) ==
    {i \in DOMAIN invoices : invoices[i].seller_phone = phone /\ IsCreditNote(invoices[i])}

\* C1: under every seller and period the invoices that are not credit notes
\* carry, in the order of issue, the sequence numbers 1, 2, 3, ..., the voided
\* ones included
C1_Sequence ==
    \A phone \in Phones, month \in 1..12 :
        LET issued == IssuedUnder(phone, month, Clock0.year) IN
        \A i \in 1..Len(issued) : SeqOf(issued[i].invoice_number) = i

\* a seller has issued a second invoice of a period after the first was voided,
\* beside an invoice of the other seller
C1_Witness ==
    \E month \in 1..12 :
        LET issued == IssuedUnder("p1", month, Clock0.year) IN
        /\ Len(issued) >= 2
        /\ issued[1].is_cancelled
        /\ IssuedUnder("p2", month, Clock0.year) # <<>>

\* C2: a record added to the table carries the count of the earlier records of
\* its seller, period and kind (credit note or not, voided ones included) plus
\* one, its number is none of the seller's earlier numbers, and no earlier
\* record changes its number or leaves the table
C2_Step ==
    LET n == Len(invoices) IN
    /\ Len(invoices') >= n
    /\ \A i \in 1..n : invoices'[i].invoice_number = invoices[i].invoice_number
    /\ Len(invoices') > n =>
          LET new == invoices'[n + 1]
              alike == {i \in 1..n : /\ invoices[i].seller_phone = new.seller_phone
                                     /\ invoices[i].invoice_month = new.invoice_month
                                     /\ invoices[i].invoice_year = new.invoice_year
                                     /\ IsCreditNote(invoices[i]) = IsCreditNote(new)}
          IN  /\ Len(invoices') = n + 1
              /\ SeqOf(NumberPart(new)) = Cardinality(alike) + 1
              /\ \A i \in 1..n : invoices[i].seller_phone = new.seller_phone
                                    => invoices[i].invoice_number # new.invoice_number

\* C2: every step keeps the rule above
C2_NoReuse == [][C2_Step]_vars

\* an invoice has been issued to a seller who holds a voided invoice and its
\* credit note in the same period
C2_Witness ==
    /\ last.op = "invoice" /\ last.out = "invoiced"
    /\ SeqOf(last.number) = 2
    /\ \E i \in DOMAIN invoices : /\ invoices[i].seller_phone = last.phone
                                   /\ invoices[i].is_cancelled
                                   /\ invoices[i].invoice_month = clock.month
    /\ \E i \in CreditsOf(last.phone) : invoices[i].invoice_month = clock.month

----------------------------------------------------------------------------
(* Claims on cancellation *)

Cancelled == last.op = "cancel" /\ last.out = "cancelled"

C8_Step ==
    /\ \A i \in DOMAIN invoices :
          /\ i \in DOMAIN invoices'
          /\ invoices'[i].invoice_number = invoices[i].invoice_number
          /\ invoices[i].is_cancelled => invoices'[i].is_cancelled
    /\ \A i \in DOMAIN invoices' : IsCreditNote(invoices'[i]) => ~invoices'[i].is_cancelled

CancelQuoting(q) == CancelWord \o <<" ">> \o q

\* the credit notes of a seller that name the original numbered n
CreditsFor(rows, phone, n) ==
    {i \in DOMAIN rows : /\ rows[i].seller_phone = phone
                         /\ IsCreditNote(rows[i])
                         /\ rows[i].invoice_data.original_invoice_number = n}

\* C5 as stated: the credit note's record holds, in the columns the monthly
\* report reads and in its items, the values stored for the invoice it reverses
C5_AsStated ==
    \A i \in DOMAIN invoices :
        \A c \in CreditsFor(invoices, invoices[i].seller_phone, invoices[i].invoice_number) :
            ~IsCreditNote(invoices[i]) =>
                /\ invoices[c].taxable_value = invoices[i].taxable_value
                /\ invoices[c].cgst = invoices[i].cgst
                /\ invoices[c].sgst = invoices[i].sgst
                /\ invoices[c].igst = invoices[i].igst
                /\ invoices[c].total_amount = invoices[i].total_amount
                /\ invoices[c].invoice_data.items = invoices[i].invoice_data.items

\* C6 as stated: when a seller's invoice N is void and has its credit note, a
\* cancellation of N by the seller is answered "already cancelled", allocates no
\* credit-note number and leaves the table as it is
C6_Step ==
    \A i \in DOMAIN invoices :
        (/\ ~IsCreditNote(invoices[i]) /\ invoices[i].is_cancelled
         /\ CreditsFor(invoices, invoices[i].seller_phone, invoices[i].invoice_number) # {}
         /\ last'.op = "cancel"
         /\ last'.phone = invoices[i].seller_phone
         /\ last'.text = CancelQuoting(invoices[i].invoice_number))
        => /\ last'.out = "already_cancelled"
           /\ last'.cn_alloc = 0
           /\ invoices' = invoices

\* C6 as stated: every step keeps the rule above
C6_AsStated == [][C6_Step]_vars

\* C7 as stated: no two credit notes of a seller name the same original
C7_AsStated ==
    \A i \in DOMAIN invoices :
        Cardinality(CreditsFor(invoices, invoices[i].seller_phone,
                               invoices[i].invoice_number)) <= 1

\* C9 as stated: a cancellation that quotes the number of one of the seller's
\* active invoices without its prefix cancels an invoice whose number ends with
\* the quoted fragment
C9_Step ==
    \A i \in DOMAIN invoices :
        LET fragment == SubSeq(invoices[i].invoice_number, 4, Len(invoices[i].invoice_number))
        IN  (/\ ~IsCreditNote(invoices[i]) /\ ~invoices[i].is_cancelled
             /\ last'.op = "cancel"
             /\ last'.phone = invoices[i].seller_phone
             /\ last'.text = CancelQuoting(fragment))
            => /\ last'.out = "cancelled"
               /\ EndsWith(last'.orig, fragment)

\* C9 as stated: every step keeps the rule above
C9_AsStated == [][C9_Step]_vars

Rejections == {"no_ref", "not_found", "already_cancelled", "is_credit_note"}

\* C10: a cancellation that is rejected leaves the invoices table and every
\* seller's row as they were, sends one message, allocates no credit-note number
\* and builds no document
C10_Step ==
    (last'.op = "cancel" /\ last'.out \in Rejections)
    => /\ invoices' = invoices
       /\ \A i \in DOMAIN sellers : i \in DOMAIN sellers' /\ sellers'[i] = sellers[i]
       /\ last'.sent = 1
       /\ last'.cn_alloc = 0
       /\ last'.docs = 0

\* C10: every step keeps the rule above
C10_Rejected == [][C10_Step]_vars

\* a cancellation of a voided invoice has been rejected with one message
C10_Witness ==
    /\ last.op = "cancel" /\ last.out = "already_cancelled" /\ last.sent = 1
    /\ \E i \in DOMAIN invoices : invoices[i].invoice_number = last.orig
                                   /\ invoices[i].is_cancelled

\* C11 as stated: a cancellation whose text names the number of one of the
\* seller's credit notes is rejected: it voids no record and adds no credit note
C11_Step ==
    \A i \in DOMAIN invoices :
        (/\ IsCreditNote(invoices[i])
         /\ last'.op = "cancel"
         /\ last'.phone = invoices[i].seller_phone
         /\ last'.text = CancelQuoting(invoices[i].invoice_number))
        => /\ last'.out \in Rejections
           /\ invoices' = invoices

\* C11 as stated: every step keeps the rule above
C11_AsStated == [][C11_Step]_vars

----------------------------------------------------------------------------
(* Claims on the monthly report *)

Reported == last.op = "report" /\ last.out = "report_sent"

\* the stored rows of a seller and a period, credit notes or the others
Stored(rows, phone, period, credit) ==
    SelectSeq(rows, LAMBDA r : /\ r.seller_phone = phone
                               /\ r.invoice_month = period.month
                               /\ r.invoice_year = period.year
                               /\ IsCreditNote(r) = credit)

Range(f) == {f[i] : i \in DOMAIN f}
Column(list, c) == [i \in DOMAIN list |-> list[i][c]]
TaxOf(r) == r.cgst + r.sgst + r.igst
TotalTax(list) == SumSeq([i \in DOMAIN list |-> TaxOf(list[i])])
ActiveOf(list) == SelectSeq(list, LAMBDA r : ~r.is_cancelled)
VoidOf(list) == SelectSeq(list, LAMBDA r : r.is_cancelled)

\* C12: in a delivered report the net GST is the CGST, SGST and IGST of all the
\* seller's stored invoices of the period that are not credit notes, void or not,
\* minus those of the seller's credit notes of the period; the gross taxable
\* value and each gross and reversed component are the sums over the same rows
C12_Net ==
    Reported =>
        LET regular == Stored(invoices, last.phone, last.period, FALSE)
            credit_ns == Stored(invoices, last.phone, last.period, TRUE)
            rep == last.report
        IN  /\ rep.net_gst = TotalTax(regular) - TotalTax(credit_ns)
            /\ rep.total_gst = rep.net_gst
            /\ rep.gross_taxable = SumSeq(Column(regular, "taxable_value"))
            /\ rep.gross_cgst = SumSeq(Column(regular, "cgst"))
            /\ rep.gross_sgst = SumSeq(Column(regular, "sgst"))
            /\ rep.gross_igst = SumSeq(Column(regular, "igst"))
            /\ rep.reversed_cgst = SumSeq(Column(credit_ns, "cgst"))
            /\ rep.reversed_sgst = SumSeq(Column(credit_ns, "sgst"))
            /\ rep.reversed_igst = SumSeq(Column(credit_ns, "igst"))
            /\ rep.total_invoices = Len(regular)

\* a report has been delivered for a period that holds a voided invoice with
\* tax, an active invoice and a credit note
C12_Witness ==
    /\ Reported
    /\ \E r \in Range(VoidOf(Stored(invoices, last.phone, last.period, FALSE))) : TaxOf(r) > 0
    /\ ActiveOf(Stored(invoices, last.phone, last.period, FALSE)) # <<>>
    /\ Stored(invoices, last.phone, last.period, TRUE) # <<>>

\* C13 as stated: in a delivered report the gross tax is the tax of all the
\* period's invoices, the voided ones included, and the net tax is the tax of the
\* period's invoices that are still active, and is not negative
C13_AsStated ==
    Reported =>
        LET regular == Stored(invoices, last.phone, last.period, FALSE)
            rep == last.report
        IN  /\ rep.gross_cgst + rep.gross_sgst + rep.gross_igst = TotalTax(regular)
            /\ rep.net_gst = TotalTax(ActiveOf(regular))
            /\ rep.net_gst >= 0

\* C13 amended: a cancellation files its credit note under the month of the
\* cancellation, and a delivered report shows as gross tax the tax of all the
\* period's invoices, the voided ones included, and as net tax the gross tax
\* less the tax of the credit notes filed under the period: the tax of an
\* invoice cancelled in a later month stays in the net tax of its own period
\* and is taken off the later month's
C13_Step ==
    /\ (last'.op = "cancel" /\ last'.out = "cancelled" /\ Len(invoices') > Len(invoices))
        => LET c == invoices'[Len(invoices')] IN
           /\ IsCreditNote(c)
           /\ c.invoice_data.original_invoice_number = last'.orig
           /\ c.invoice_month = clock.month /\ c.invoice_year = clock.year
    /\ (last'.op = "report" /\ last'.out = "report_sent")
        => LET regular == Stored(invoices', last'.phone, last'.period, FALSE)
               credit_ns == Stored(invoices', last'.phone, last'.period, TRUE)
               rep == last'.report
           IN  /\ rep.gross_cgst + rep.gross_sgst + rep.gross_igst
                    = TotalTax(ActiveOf(regular)) + TotalTax(VoidOf(regular))
               /\ rep.net_gst = TotalTax(ActiveOf(regular)) + TotalTax(VoidOf(regular))
                                  - TotalTax(credit_ns)

\* C13 amended: every step keeps the rule above
C13_Reversal == [][C13_Step]_vars

\* a report has been delivered for the month in which an invoice of an earlier
\* month was cancelled: its net tax is negative
C13_Witness ==
    /\ Reported
    /\ last.report.net_gst < 0
    /\ \E i \in CreditsOf(last.phone) :
          /\ invoices[i].invoice_month = last.period.month
          /\ \E j \in DOMAIN invoices :
                /\ invoices[j].invoice_number = invoices[i].invoice_data.original_invoice_number
                /\ invoices[j].is_cancelled
                /\ invoices[j].invoice_month < last.period.month

\* C14: a report request for a period in which the seller has no stored record
\* is answered with the one message that there are no invoices: no document is
\* built, the invoices table stays as it is, and the handler does not fail
C14_Step ==
    (/\ last'.op = "report"
     /\ Stored(invoices, last'.phone, last'.period, FALSE) = <<>>
     /\ Stored(invoices, last'.phone, last'.period, TRUE) = <<>>)
    => /\ last'.out = "no_invoices"
       /\ last'.sent = 1
       /\ last'.docs = 0
       /\ last'.report = NoReport
       /\ invoices' = invoices

\* C14: every step keeps the rule above
C14_NoInvoices == [][C14_Step]_vars

\* a seller who holds invoices of an earlier month has been told that the
\* month asked for has none
C14_Witness ==
    /\ last.op = "report" /\ last.out = "no_invoices" /\ last.sent = 1
    /\ Stored(invoices, last.phone, last.period, FALSE) = <<>>
    /\ Stored(invoices, last.phone, last.period, TRUE) = <<>>
    /\ \E i \in DOMAIN invoices : invoices[i].seller_phone = last.phone

\* C15 as stated: the answer that a period has no invoices is given only for a
\* period that has none: a failed retrieval of the records is not answered so
C15_AsStated ==
    (last.op = "report" /\ last.out = "no_invoices")
    => /\ Stored(invoices, last.phone, last.period, FALSE) = <<>>
       /\ Stored(invoices, last.phone, last.period, TRUE) = <<>>

\* the category the claim gives a type tag
Category(tag) ==
    LET t == upper(TypeText[tag]) IN
    IF Contains(TAX, t) THEN "taxed"
    ELSE IF Contains(BILL, t) THEN "composition" ELSE "unregistered"

InList(list, n) == \E i \in DOMAIN list : list[i] = n

\* C16 as stated: every active row of the period that is not a credit note is in
\* exactly one of the three category lists of the report: the taxed list when its
\* type contains TAX, otherwise the composition list when it contains BILL,
\* otherwise the unregistered list
C16_AsStated ==
    fout.done =>
        \A i \in DOMAIN fin :
            (~IsCreditNote(fin[i]) /\ ~fin[i].is_cancelled) =>
                LET n == fin[i].invoice_number
                    c == Category(fin[i].invoice_type)
                IN  /\ InList(fout.report.tax_invoices, n) <=> c = "taxed"
                    /\ InList(fout.report.bos_invoices, n) <=> c = "composition"
                    /\ InList(fout.report.nongst_invoices, n) <=> c = "unregistered"

\* the sum of the values of f over the finite set S
RECURSIVE SumOver(_, _)
SumOver(S, f) ==
    IF S = {} THEN 0
    ELSE LET x == CHOOSE y \in S : TRUE IN f[x] + SumOver(S \ {x}, f)

\* the line items <<row, item>> of the rows in `among` that carry a code
CodedLines(rows, among) ==
    UNION {{<<i, j>> : j \in {n \in DOMAIN rows[i].invoice_data.items :
                                 strip(rows[i].invoice_data.items[n].hsn_sac) # <<>>}} :
           i \in among}

\* C25: the breakdown by classification code of a report has one entry for each
\* code carried by a line item of an active row that is not a credit note,
\* whatever the category of the row; the entry holds the sums of the amounts and
\* of the taxes at the rates of the row over those line items; line items
\* without a code, voided rows and credit notes add nothing; the gross figures
\* of the same report are the sums over the rows that are not credit notes, the
\* voided ones included
C25_Hsn ==
    fout.done =>
        LET regular == {i \in DOMAIN fin : ~IsCreditNote(fin[i])}
            counted == {i \in regular : ~fin[i].is_cancelled}
            lines == CodedLines(fin, counted)
            item(p) == fin[p[1]].invoice_data.items[p[2]]
            data(p) == fin[p[1]].invoice_data
            hs == fout.report.hsn_summary
        IN  /\ {hs[n].hsn : n \in DOMAIN hs} = {strip(item(p).hsn_sac) : p \in lines}
            /\ \A m, n \in DOMAIN hs : hs[m].hsn = hs[n].hsn => m = n
            /\ \A n \in DOMAIN hs :
                  LET mine == {p \in lines : strip(item(p).hsn_sac) = hs[n].hsn} IN
                  /\ hs[n].taxable = SumOver(mine, [p \in mine |-> item(p).amount])
                  /\ hs[n].cgst = SumOver(mine, [p \in mine |->
                                      Percent(item(p).amount, data(p).cgst_rate)])
                  /\ hs[n].sgst = SumOver(mine, [p \in mine |->
                                      Percent(item(p).amount, data(p).sgst_rate)])
                  /\ hs[n].igst = 0
            /\ fout.report.gross_taxable
                  = SumOver(regular, [i \in regular |-> fin[i].taxable_value])
            /\ fout.report.gross_cgst = SumOver(regular, [i \in regular |-> fin[i].cgst])
            /\ fout.report.gross_sgst = SumOver(regular, [i \in regular |-> fin[i].sgst])

\* a report over a voided invoice and an active invoice of another category
\* that carry the same code: the entry of the code holds the active one only,
\* the gross taxable value holds both
C25_Witness ==
    /\ fout.done
    /\ Len(fin) = 2
    /\ fin[1].is_cancelled /\ ~fin[2].is_cancelled
    /\ ~IsCreditNote(fin[1]) /\ fin[2].invoice_type = "RECEIPT"
    /\ fin[1].invoice_data.items = fin[2].invoice_data.items
    /\ Len(fout.report.hsn_summary) = 1
    /\ fout.report.hsn_summary[1].taxable < fout.report.gross_taxable

----------------------------------------------------------------------------
(* Claims on the replies and the messages *)

\* C17 as stated: every request to the webhook is answered with a TwiML reply,
\* whatever its form fields hold
C17_AsStated == last.via # "none" => last.reply = "twiml"

\* C18 as stated: every voice note, cancellation and report that a worker has
\* handled to its end has sent the seller at least one message, with the result
\* or with a notice of the failure
C18_AsStated ==
    last.op \in {"transcribe", "invoice", "cancel", "report"} => last.sent >= 1

----------------------------------------------------------------------------
(* Claims on failures of the store *)

\* C19 as stated: when an invoice is stored under a number that an earlier
\* invoice of the seller carries, the failure of the counting lookup has been
\* logged
C19_Step ==
    LET n == Len(invoices) IN
    (/\ Len(invoices') > n
     /\ ~IsCreditNote(invoices'[n + 1])
     /\ \E i \in 1..n : /\ invoices[i].seller_phone = invoices'[n + 1].seller_phone
                         /\ invoices[i].invoice_number = invoices'[n + 1].invoice_number)
    => last'.logs # {}

\* C19 as stated: every step keeps the rule above
C19_AsStated == [][C19_Step]_vars

\* C20: a request that reaches save_invoice is carried to its end whatever the
\* store does with the write: the invoice's document is sent with the second
\* message of the voice pipeline (the credit note's with the one message of a
\* cancellation), the call adds at most one record and changes no other, and it
\* makes a second insert, of the core fields only, exactly when the full insert
\* was rejected
C20_Step ==
    LET n == Len(invoices)
        was == IF last'.op = "cancel"
               THEN cancel_invoice_in_db(invoices, last'.phone, last'.orig, TRUE)
               ELSE invoices
        added == Len(invoices') - n
    IN  last'.posts >= 1 =>
          /\ last'.op \in {"invoice", "cancel"}
          /\ last'.op = "invoice" => last'.out = "invoiced" /\ last'.sent = 2
          /\ last'.op = "cancel" => last'.out = "cancelled" /\ last'.sent = 1
          /\ last'.docs = 1 /\ last'.number # <<>>
          /\ "process_voice_note error" \notin last'.logs
          /\ added \in {0, 1}
          /\ \A i \in 1..n :
                invoices'[i] = invoices[i] \/ (last'.op = "cancel" /\ invoices'[i] = was[i])
          /\ last'.posts = IF "save_invoice full failed" \in last'.logs THEN 2 ELSE 1
          /\ added = 1 => /\ invoices'[n + 1].invoice_number = last'.number
                           /\ invoices'[n + 1].full <=> last'.posts = 1

\* C20: every step keeps the rule above
C20_Persisted == [][C20_Step]_vars

\* an invoice has been sent to the seller after both inserts were rejected: no
\* record carries its number
C20_Witness ==
    /\ last.op = "invoice" /\ last.out = "invoiced" /\ last.sent = 2
    /\ last.posts = 2
    /\ \A i \in DOMAIN invoices : invoices[i].invoice_number # last.number

----------------------------------------------------------------------------
(* Claims on the voice note worker *)

\* the rows of the sellers table that a step leaves as they were
SellersKept == \A i \in DOMAIN sellers : i \in DOMAIN sellers' /\ sellers'[i] = sellers[i]

\* C21: a voice note whose transcript is empty
C21_Step ==
    last'.via = "voice" /\ ~last'.heard =>
        /\ last'.op = "transcribe" /\ last'.out = "not_understood"
        /\ last'.sent = 1
        /\ last'.inv_alloc = 0 /\ last'.cn_alloc = 0
        /\ last'.docs = 0 /\ last'.posts = 0
        /\ last'.number = <<>> /\ last'.report = NoReport
        /\ invoices' = invoices
        /\ SellersKept

\* C21: when the transcript of a voice note is empty the worker sends one
\* message, that it could not understand, and stops: it allocates no invoice
\* number and no credit note number, builds no document, makes no insert and
\* leaves every invoice record and every seller record as it was
C21_EmptyTranscript == [][C21_Step]_vars

\* a seller who holds an invoice has sent a voice note with an empty transcript
C21_Witness ==
    /\ last.via = "voice" /\ ~last.heard /\ last.op = "transcribe"
    /\ \E i \in DOMAIN invoices : invoices[i].seller_phone = last.phone

----------------------------------------------------------------------------
(* Claims on the sellers table *)

\* the rows of the sellers table under a phone number
SellerRows(phone) == {i \in DOMAIN sellers : sellers[i].phone_number = phone}

\* C22 as stated: the sellers table holds at most one record per phone number
C22_AsStated == \A phone \in Phones : Cardinality(SellerRows(phone)) <= 1

----------------------------------------------------------------------------
(* Claims on the pairing of void invoices and credit notes *)

\* C29 as stated: between requests every void invoice of a seller has a credit
\* note of that seller that names it, and every credit note names a void invoice
\* of its seller
C29_AsStated ==
    /\ \A i \in Regular(invoices) :
          invoices[i].is_cancelled =>
              CreditsFor(invoices, invoices[i].seller_phone, invoices[i].invoice_number) # {}
    /\ \A c \in Credits(invoices) :
          \E i \in Regular(invoices) :
              /\ invoices[i].seller_phone = invoices[c].seller_phone
              /\ invoices[i].invoice_number = invoices[c].invoice_data.original_invoice_number
              /\ invoices[i].is_cancelled

----------------------------------------------------------------------------
(* Claims on the round trip of a number through the parser *)

\* C30 as stated: a cancellation that quotes the number generate_invoice_number
\* gave a stored, active invoice resolves to exactly that invoice, whatever the
\* business name and the sequence number
C30_AsStated == fout.done => fout.resolved = {fout.number}

----------------------------------------------------------------------------
(* Claims on voice notes during onboarding *)

\* a voice note of the phone is taken up by the webhook (a new phone when the
\* sellers table has room for its row)
C27_Accepted ==
    \A phone \in Phones :
        SellerRows(phone) # {} \/ Len(sellers) < OnboardBounds.rows
            => ENABLED WebhookVoice(phone, <<>>, {}, OnboardBounds)

\* the request of a voice note is acknowledged, its worker has run, the rows of
\* the sellers table are as they were and the only new row is that of a new phone
C27_Step ==
    last'.via = "voice" =>
        /\ last'.reply = "twiml"
        /\ last'.op \in {"transcribe", "invoice", "cancel", "report"}
        /\ SellersKept
        /\ sellers' = IF SellerRows(last'.phone) = {}
                      THEN Append(sellers, NewSeller(last'.phone)) ELSE sellers

\* C27: a message with a voice note is always processed, in whatever onboarding
\* step the seller is and for a new phone once its record is created: the webhook
\* runs the voice worker and acknowledges, and the handling leaves the
\* onboarding step and the profile of every seller as they were
C27_VoiceAlways == []C27_Accepted /\ [][C27_Step]_vars

\* a seller who is being asked for the business name has dictated an invoice
C27_Witness ==
    /\ last.via = "voice" /\ last.op = "invoice" /\ last.out = "invoiced"
    /\ \E i \in SellerRows(last.phone) : sellers[i].onboarding_step = "reg_name"

----------------------------------------------------------------------------
(* Claims on the onboarding steps *)

KnownSteps == {"language_asked", "registration_asked", "reg_name", "reg_address",
               "reg_gstin", "complete"}

\* the body names a language
LanguageChoice(tl) ==
    \/ Contains(<<"1">>, tl) \/ Contains(<<"e","n","g","l","i","s","h">>, tl)
    \/ Contains(<<"2">>, tl) \/ Contains(<<"t","e","l","u","g","u">>, tl)

\* the step old may become the step new on the text message body
StepEdge(old, new, body) ==
    LET tl == lower(strip(body)) IN
    \/ new = "language_asked" /\ tl \in GREETINGS
    \/ old = "language_asked" /\ new = "registration_asked" /\ LanguageChoice(tl)
    \/ old = "registration_asked" /\ new = "reg_name" /\ Contains(<<"y","e","s">>, tl)
    \/ old = "registration_asked" /\ new = "complete" /\ ~Contains(<<"y","e","s">>, tl)
    \/ old = "reg_name" /\ new = "reg_address" /\ strip(body) # <<>>
    \/ old = "reg_address" /\ new = "reg_gstin" /\ strip(body) # <<>>
    \/ old = "reg_gstin" /\ new = "complete"
    \/ old \notin KnownSteps /\ new = "complete"
    \/ old = "complete" /\ new = "reg_name" /\ tl \in {Update, Register}

\* the answer is empty where a text is asked for, or names no language where
\* the language is asked for
NoAnswer(old, body) ==
    \/ old = "language_asked" /\ ~LanguageChoice(lower(strip(body)))
    \/ old \in {"reg_name", "reg_address"} /\ strip(body) = <<>>

C28_Step ==
    \A i \in DOMAIN sellers :
        LET old == sellers[i].onboarding_step
            new == sellers'[i].onboarding_step
            mine == last'.via = "text" /\ last'.phone = sellers[i].phone_number
        IN  /\ i \in DOMAIN sellers'
            /\ old # new => mine /\ StepEdge(old, new, last'.text)
            /\ mine /\ lower(strip(last'.text)) \notin GREETINGS /\ NoAnswer(old, last'.text)
                  => new = old
            /\ mine /\ last'.op \in {"help", "cancel", "report"} => old = "complete"

\* C28: the onboarding step of a seller changes only on a text message of the
\* seller and only along the listed transitions, each on its condition; an empty
\* answer or one that names no language leaves the step as it is; help,
\* cancellation and report are dispatched from a text message only when the step
\* is complete
C28_Steps == [][C28_Step]_vars

\* a seller registered under a name has asked to update the profile and is asked
\* for the business name again
C28_Witness ==
    /\ last.via = "text" /\ last.op = "update"
    /\ \E i \in SellerRows(last.phone) : /\ sellers[i].onboarding_step = "reg_name"
                                          /\ sellers[i].business_name # NoName

----------------------------------------------------------------------------
(* Claims on the isolation of sellers *)

\* the rows of the invoices table a seller owns, and those of the others
OwnedBy(rows, phone) == SelectSeq(rows, LAMBDA r : r.seller_phone = phone)
OwnedByOthers(rows, phone) == SelectSeq(rows, LAMBDA r : r.seller_phone # phone)

\* the message the request of `last'` carried: a voice note is a dictation, the
\* word report, nothing, or the recorded cancellation
Message(l) ==
    IF l.via = "text" \/ l.op = "cancel" THEN l.text
    ELSE IF l.op = "report" THEN ReportWord
    ELSE IF l.op = "invoice" THEN Dictation ELSE <<>>

\* the results the request has when the table holds the seller's own rows only
Alone(l, rows, now, seller) ==
    LET text == Message(l) IN
    {IF l.via = "voice"
     THEN process_voice_note(rows, now, l.phone, seller, text, {}, o, k)
     ELSE IF is_cancel_request(text)
     THEN handle_cancel_request(rows, now, l.phone, text, seller, {}, o)
     ELSE handle_report_request(rows, now, l.phone, text, seller, {}) :
        o \in LookupOrig(rows, l.phone, text, seller, {}), k \in BooksBounds.drafts}

\* a request of a seller for an invoice, a cancellation or a report leaves the
\* rows of the other sellers as they were, and its outcome, the numbers it
\* allocated, its report and the seller's own rows after it are those of the
\* same request on a table without the rows of the others
C26_Step ==
    last'.op \in {"invoice", "cancel", "report"} =>
        LET A == last'.phone
            known == {sellers[i] : i \in SellerRows(A)}
        IN  /\ OwnedByOthers(invoices', A) = OwnedByOthers(invoices, A)
            /\ \E seller \in IF known = {} THEN {NewSeller(A)} ELSE known :
               \E r \in Alone(last', OwnedBy(invoices, A), clock, seller) :
                  /\ r.out = last'.out
                  /\ r.number = last'.number /\ r.orig = last'.orig
                  /\ r.period = last'.period /\ r.report = last'.report
                  /\ r.inv = OwnedBy(invoices', A)

\* C26: the operations of a seller never void, create or alter a record of
\* another seller, and the numbers allocated to the seller and the figures of
\* the seller's reports do not depend on the records of the others
C26_Isolation == [][C26_Step]_vars

\* a seller has quoted, in a cancellation, the number of an active invoice of
\* another seller, and has been told that no such invoice was found
C26_Witness ==
    /\ last.op = "cancel" /\ last.out = "not_found"
    /\ \E i \in DOMAIN invoices :
          /\ invoices[i].seller_phone # last.phone
          /\ ~invoices[i].is_cancelled
          /\ last.text = CancelQuoting(invoices[i].invoice_number)
    /\ \E i \in DOMAIN invoices : invoices[i].seller_phone = last.phone

----------------------------------------------------------------------------
(* Claims on interleaved workers *)

\* the threads that have ended a job of the kind
Ended(kind) == {t \in Threads : workers[t].pc = "done" /\ workers[t].kind = kind}

\* C23: two workers of a seller that have read the same count of the seller's
\* invoices of the period have each stored a record, and the two records, both
\* invoices and no credit notes, carry the same number: the number is the one of
\* the count read, whatever was stored before the worker's own record
C23_Collision ==
    \A t, u \in Ended("invoice") :
        (/\ t # u
         /\ workers[t].phone = workers[u].phone
         /\ workers[t].seq = workers[u].seq)
        => LET a == workers[t].at
               b == workers[u].at
           IN  /\ a \in DOMAIN invoices /\ b \in DOMAIN invoices /\ a # b
               /\ ~IsCreditNote(invoices[a]) /\ ~IsCreditNote(invoices[b])
               /\ invoices[a].seller_phone = invoices[b].seller_phone
               /\ SeqOf(invoices[a].invoice_number) = workers[t].seq
               /\ invoices[a].invoice_number = invoices[b].invoice_number

\* the table holds two invoices of one seller and period that are not credit
\* notes and carry the same number
C23_Witness ==
    \E a, b \in Regular(invoices) :
        /\ a # b
        /\ invoices[a].seller_phone = invoices[b].seller_phone
        /\ invoices[a].invoice_month = invoices[b].invoice_month
        /\ invoices[a].invoice_year = invoices[b].invoice_year
        /\ invoices[a].invoice_number = invoices[b].invoice_number
        /\ \A t \in Threads : workers[t].pc = "done"

\* C24: two workers that have both passed the checks of a cancellation of the
\* same invoice have both ended it with a credit note: the table holds two
\* credit notes that name the one original, and the original is void
C24_TwoCredits ==
    \A t, u \in Ended("cancel") :
        (/\ t # u
         /\ workers[t].passed /\ workers[u].passed
         /\ workers[t].phone = workers[u].phone
         /\ workers[t].orig.invoice_number = workers[u].orig.invoice_number)
        => LET a == workers[t].at
               b == workers[u].at
               n == workers[t].orig.invoice_number
           IN  /\ workers[t].out = "cancelled" /\ workers[u].out = "cancelled"
               /\ a # b
               /\ {a, b} \subseteq CreditsFor(invoices, workers[t].phone, n)
               /\ \A i \in Regular(invoices) :
                     (invoices[i].seller_phone = workers[t].phone
                      /\ invoices[i].invoice_number = n) => invoices[i].is_cancelled

\* the table holds one invoice of a number and two credit notes that name it
C24_Witness ==
    \E i \in Regular(invoices) :
        LET n == invoices[i].invoice_number
            phone == invoices[i].seller_phone
        IN  /\ Cardinality(CreditsFor(invoices, phone, n)) >= 2
            /\ \A j \in Regular(invoices) :
                  (invoices[j].seller_phone = phone /\ invoices[j].invoice_number = n) => j = i
            /\ \A t \in Threads : workers[t].pc = "done"

====
